---- MODULE Spec2Model ----
(***************************************************************************)
(* A model of the CMS DRG grouper interface codec: the fixed-width input   *)
(* record, its fields and value containers, the batch container and the    *)
(* decoders of the grouper's output line.                                  *)
(*                                                                         *)
(* A Python string is a sequence of one-character strings.  A call that    *)
(* may raise returns a record [ok, err, val]: Return(v) or Raise(e).       *)
(***************************************************************************)
EXTENDS Integers, Sequences, FiniteSets, TLC

VARIABLES batch, initial, added, out, field, text, parsed, line, outrec, container,
          config, fs, cwd, handler, run, proc

\* the configuration read at import, the files, the working directory, a batch
\* file handler, a call of MSDRGGrouperSoftwareGrouper.group and the grouper process
io_vars == <<config, fs, cwd, handler, run, proc>>

vars ==
  <<batch, initial, added, out, field, text, parsed, line, outrec, container, io_vars>>

----------------------------------------------------------------------------
(* Python built-ins on strings and integers *)

Digits == <<"0", "1", "2", "3", "4", "5", "6", "7", "8", "9">>

DigitChars == {Digits[i] : i \in 1..10}

Letters ==
  {"A", "B", "C", "D", "E", "F", "G", "H", "J", "N", "U", "W", "X", "Y", "Z",
   "a", "h", "n", "o", "p", "t", "u"}

Whitespace == {" ", "\n"}

isalnum_char(c) == c \in DigitChars \cup Letters

\* str.isalnum(): every character alphanumeric and at least one character
isalnum(s) == Len(s) > 0 /\ \A i \in 1..Len(s) : isalnum_char(s[i])

Min(a, b) == IF a < b THEN a ELSE b

\* s[a:b] for 0 <= a, 0 <= b (clipped to the string, as Python slices are)
Slice(s, a, b) == SubSeq(s, a + 1, Min(b, Len(s)))

Repeat(c, n) == [i \in 1..n |-> c]

\* str.ljust(width): pads on the right with spaces, never truncates
ljust(s, width) == s \o Repeat(" ", width - Len(s))

\* str.zfill(width): pads on the left with zeros after a sign, never truncates
zfill(s, width) ==
  IF Len(s) >= width THEN s
  ELSE IF Len(s) > 0 /\ s[1] \in {"+", "-"}
       THEN <<s[1]>> \o Repeat("0", width - Len(s)) \o Tail(s)
       ELSE Repeat("0", width - Len(s)) \o s

\* str.lstrip(): from the first character that is not whitespace on
lstrip(s) ==
  LET kept == {i \in 1..Len(s) : s[i] \notin Whitespace}
  IN IF kept = {} THEN <<>>
     ELSE SubSeq(s, CHOOSE i \in kept : \A j \in kept : i <= j, Len(s))

\* str.rstrip(): up to the last character that is not whitespace
rstrip(s) ==
  LET kept == {i \in 1..Len(s) : s[i] \notin Whitespace}
  IN IF kept = {} THEN <<>>
     ELSE SubSeq(s, 1, CHOOSE i \in kept : \A j \in kept : i >= j)

\* str.strip()
strip(s) == lstrip(rstrip(s))

RECURSIVE nat_str(_)
nat_str(n) ==
  IF n < 10 THEN <<Digits[n + 1]>>
  ELSE nat_str(n \div 10) \o <<Digits[(n % 10) + 1]>>

\* str(int)
int_str(n) == IF n < 0 THEN <<"-">> \o nat_str(-n) ELSE nat_str(n)

DigitValue(c) == CHOOSE d \in 0..9 : Digits[d + 1] = c

RECURSIVE digits_value(_)
digits_value(s) ==
  IF Len(s) = 0 THEN 0
  ELSE 10 * digits_value(SubSeq(s, 1, Len(s) - 1)) + DigitValue(s[Len(s)])

Return(v) == [ok |-> TRUE, err |-> "", val |-> v]

Raise(e) == [ok |-> FALSE, err |-> e, val |-> <<>>]

\* int(str): surrounding whitespace ignored, an optional sign, then digits
int_of(s) ==
  LET literal(t) ==
        LET signed == Len(t) > 0 /\ t[1] \in {"+", "-"}
            d == IF signed THEN Tail(t) ELSE t
        IN IF Len(d) > 0 /\ \A i \in 1..Len(d) : d[i] \in DigitChars
           THEN Return(IF signed /\ t[1] = "-" THEN 0 - digits_value(d)
                       ELSE digits_value(d))
           ELSE Raise("ValueError")
  IN literal(strip(s))

RECURSIVE concat(_)
\* "".join(parts)
concat(parts) ==
  IF Len(parts) = 0 THEN <<>>
  ELSE IF Len(parts) = 1 THEN parts[1]
  ELSE concat(SubSeq(parts, 1, Len(parts) \div 2))
         \o concat(SubSeq(parts, Len(parts) \div 2 + 1, Len(parts)))

\* sep.join(parts)
join(sep, parts) ==
  concat([i \in 1..(2 * Len(parts) - 1) |->
            IF i % 2 = 1 THEN parts[(i + 1) \div 2] ELSE sep])

\* text.replace(c, "")
remove_char(s, c) ==
  concat([i \in 1..Len(s) |-> IF s[i] = c THEN <<>> ELSE <<s[i]>>])

----------------------------------------------------------------------------
(* Value containers: Date, DiagnosisCode, Diagnosis, ProcedureCode.        *)
(* An optional argument is <<>> for None and <<x>> for the value x.        *)

Date_field_length == 10

DiagnosisCode_max_len == 7

ProcedureCode_max_len == 7

\* ProcedureCode.field_length, read by SecondaryProcedures
ProcedureCode_field_length == 7

\* Diagnosis.field_length, read by SecondaryDiagnoses: the code and the POA byte
Diagnosis_field_length == 8

\* PresentOnAdmissionValue.NONE_TYPE.value: the one-byte "no POA" flag
PresentOnAdmissionValue_NONE_TYPE == " "

\* the values of the members of PresentOnAdmissionValue
PresentOnAdmissionValue == {"Y", "N", "U", "W", "1", PresentOnAdmissionValue_NONE_TYPE}

\* a helper that writes a zero where the decimal point is
remove_decimal_zeroed(t) == [i \in 1..Len(t) |-> IF t[i] = "." THEN "0" ELSE t[i]]

\* text.replace(".", "")
remove_decimal(t) == remove_char(t, ".")

\* a datetime.date is <<month, day, year>>; Date(None) holds <<>>
Date_init(date) == [date |-> date]

\* date.strftime("%m/%d/%Y"), for the four-digit years the model draws
strftime(d) ==
  zfill(int_str(d[1]), 2) \o <<"/">> \o zfill(int_str(d[2]), 2) \o <<"/">>
    \o int_str(d[3])

\* a formatter that writes nothing for the absent date
Date_str_empty(self) ==
  IF self.date # <<>> THEN strftime(self.date) ELSE <<>>

Date_str(self) ==
  IF self.date # <<>> THEN strftime(self.date)
  ELSE Repeat(" ", Date_field_length)

\* a constructor that strips the decimals before it tests for the empty code
DiagnosisCode_init_stripping_first(code) ==
  LET c == remove_decimal(code)
  IN IF c = <<>> THEN Return([code |-> <<>>])
     ELSE IF ~isalnum(c) THEN Raise("ValueError") ELSE Return([code |-> c])

DiagnosisCode_init(code) ==
  IF code = <<>> THEN Return([code |-> <<>>])
  ELSE LET c == remove_decimal(code)
       IN IF ~isalnum(c) THEN Raise("ValueError") ELSE Return([code |-> c])

DiagnosisCode_str(self) == ljust(self.code, DiagnosisCode_max_len)

\* Diagnosis(diagnosis_code, poa): each argument optional
Diagnosis_init(diagnosis_code, poa) ==
  [code |-> IF diagnosis_code = <<>> THEN DiagnosisCode_init(<<>>).val
            ELSE diagnosis_code[1],
   poa |-> IF poa = <<>> THEN PresentOnAdmissionValue_NONE_TYPE ELSE poa[1]]

Diagnosis_str(self) == DiagnosisCode_str(self.code) \o <<self.poa>>

ProcedureCode_init(procedure_code) ==
  IF procedure_code = <<>> THEN Return([procedure_code |-> <<>>])
  ELSE LET c == remove_decimal(procedure_code)
       IN IF ~isalnum(c) THEN Raise("ValueError")
          ELSE Return([procedure_code |-> c])

ProcedureCode_str(self) ==
  IF self.procedure_code = <<>> THEN Repeat(" ", ProcedureCode_max_len)
  ELSE ljust(self.procedure_code, ProcedureCode_max_len)

----------------------------------------------------------------------------
(* The position table: each field class's position and field_length *)

InputClasses ==
  <<"PatientName", "MedicalRecordNumber", "AccountNumber", "AdmitDate",
    "DischargeDate", "DischargeStatus", "PrimaryPayer", "LOS", "BirthDate",
    "Age", "Sex", "AdmitDiagnosis", "PrincipalDiagnosis",
    "SecondaryDiagnoses", "PrincipalProcedure", "SecondaryProcedures",
    "ProcedureDates", "ApplyHACLogic", "UNUSED", "OptionalInformation",
    "Filler">>

SecondaryDiagnoses_occurrence == 24

SecondaryProcedures_occurrence == 24

ProcedureDates_occurrence == 25

position(cls) ==
  CASE cls = "PatientName" -> 0
    [] cls = "MedicalRecordNumber" -> 31
    [] cls = "AccountNumber" -> 44
    [] cls = "AdmitDate" -> 61
    [] cls = "DischargeDate" -> 71
    [] cls = "DischargeStatus" -> 81
    [] cls = "PrimaryPayer" -> 83
    [] cls = "LOS" -> 85
    [] cls = "BirthDate" -> 90
    [] cls = "Age" -> 100
    [] cls = "Sex" -> 103
    [] cls = "AdmitDiagnosis" -> 104
    [] cls = "PrincipalDiagnosis" -> 111
    [] cls = "SecondaryDiagnoses" -> 119
    [] cls = "PrincipalProcedure" -> 311
    [] cls = "SecondaryProcedures" -> 318
    [] cls = "ProcedureDates" -> 486
    [] cls = "ApplyHACLogic" -> 736
    [] cls = "UNUSED" -> 737
    [] cls = "OptionalInformation" -> 738
    [] cls = "Filler" -> 810
    [] cls = "MSGMCEVersionUsed" -> 835
    [] cls = "InitialDRG" -> 838
    [] cls = "InitialMSIndicator" -> 841
    [] cls = "FinalMDC" -> 841
    [] cls = "FinalDRG" -> 844
    [] cls = "FinalMSIndicator" -> 847
    [] cls = "DRGReturnCode" -> 848
    [] cls = "MSGMCEEditReturnCode" -> 850
    [] cls = "DiagnosisCodeCount" -> 854
    [] cls = "ProcedureCodeCount" -> 856
    [] cls = "PrincipalDiagnosisEditReturnFlag" -> 858
    [] cls = "PrincipalDiagnosisHospitalAcquiredConditionCriteria" -> 866
    [] cls = "PrincipalDiagnosisHospitalAcquiredConditionUsage" -> 876
    [] cls = "SecondaryDiagnosisReturnFlag" -> 881
    [] cls = "SecondaryDiagnosisHospitalAcquiredConditionAssignmentCriteria" -> 1073
    [] cls = "SecondaryDiagnosisHospitalAcquiredConditionUsage" -> 1313
    [] cls = "ProcedureEditReturnFlag" -> 1433
    [] cls = "ProcedureHospitalAcquiredConditionAssignmentCriteria" -> 1633
    [] cls = "InitialFourDigitDRG" -> 1883
    [] cls = "FinalFourDigitDRG" -> 1887
    [] cls = "FinalDRGCCMCCUsage" -> 1891
    [] cls = "InitialDRGCCMCCUsage" -> 1892
    [] cls = "NumberOfUniqueHospitalAcquiredConditionsMet" -> 1893
    [] cls = "HospitalAcquiredConditionStatus" -> 1895
    [] cls = "CostWeight" -> 1896

field_length(cls) ==
  CASE cls = "PatientName" -> 31
    [] cls = "MedicalRecordNumber" -> 13
    [] cls = "AccountNumber" -> 17
    [] cls = "AdmitDate" -> Date_field_length
    [] cls = "DischargeDate" -> Date_field_length
    [] cls = "DischargeStatus" -> 2
    [] cls = "PrimaryPayer" -> 2
    [] cls = "LOS" -> 5
    [] cls = "BirthDate" -> Date_field_length
    [] cls = "Age" -> 3
    [] cls = "Sex" -> 1
    [] cls = "AdmitDiagnosis" -> 7
    [] cls = "PrincipalDiagnosis" -> 8
    [] cls = "SecondaryDiagnoses" ->
         SecondaryDiagnoses_occurrence * Diagnosis_field_length
    [] cls = "PrincipalProcedure" -> 7
    [] cls = "SecondaryProcedures" ->
         SecondaryProcedures_occurrence * ProcedureCode_field_length
    [] cls = "ProcedureDates" -> ProcedureDates_occurrence * Date_field_length
    [] cls = "ApplyHACLogic" -> 1
    [] cls = "UNUSED" -> 1
    [] cls = "OptionalInformation" -> 72
    [] cls = "Filler" -> 25
    [] cls = "MSGMCEVersionUsed" -> 3
    [] cls = "InitialDRG" -> 3
    [] cls = "InitialMSIndicator" -> 1
    [] cls = "FinalMDC" -> 3
    [] cls = "FinalDRG" -> 3
    [] cls = "FinalMSIndicator" -> 1
    [] cls = "DRGReturnCode" -> 2
    [] cls = "MSGMCEEditReturnCode" -> 4
    [] cls = "DiagnosisCodeCount" -> 2
    [] cls = "ProcedureCodeCount" -> 2
    [] cls = "PrincipalDiagnosisEditReturnFlag" -> 2 * 4
    [] cls = "PrincipalDiagnosisHospitalAcquiredConditionCriteria" -> 5 * 2
    [] cls = "PrincipalDiagnosisHospitalAcquiredConditionUsage" -> 5 * 1
    [] cls = "SecondaryDiagnosisReturnFlag" -> (2 * 4) * 24
    [] cls = "SecondaryDiagnosisHospitalAcquiredConditionAssignmentCriteria" ->
         (2 * 5) * 24
    [] cls = "SecondaryDiagnosisHospitalAcquiredConditionUsage" -> (1 * 5) * 24
    [] cls = "ProcedureEditReturnFlag" -> 25 * (2 * 4)
    [] cls = "ProcedureHospitalAcquiredConditionAssignmentCriteria" ->
         25 * (2 * 5)
    [] cls = "InitialFourDigitDRG" -> 4
    [] cls = "FinalFourDigitDRG" -> 4
    [] cls = "FinalDRGCCMCCUsage" -> 1
    [] cls = "InitialDRGCCMCCUsage" -> 1
    [] cls = "NumberOfUniqueHospitalAcquiredConditionsMet" -> 2
    [] cls = "HospitalAcquiredConditionStatus" -> 1
    [] cls = "CostWeight" -> 7

----------------------------------------------------------------------------
(* Input fields: construction (validation) and str().  A Field object is   *)
(* [cls, value]; the base class's constructor stores the value.            *)

Field_init(cls, value) == [cls |-> cls, value |-> value]

\* all(char.isalnum() or char.isspace() for char in text)
is_alphanumeric_or_space(t) ==
  \A i \in 1..Len(t) : isalnum_char(t[i]) \/ t[i] \in Whitespace

PatientName_init(value) ==
  IF is_alphanumeric_or_space(value)
  THEN Return(Field_init("PatientName", value)) ELSE Raise("ValueError")

MedicalRecordNumber_init(value) ==
  IF isalnum(value)
  THEN Return(Field_init("MedicalRecordNumber", value))
  ELSE Raise("ValueError")

AccountNumber_init(value) ==
  IF isalnum(value)
  THEN Return(Field_init("AccountNumber", value)) ELSE Raise("ValueError")

\* value[: self.field_length].ljust(self.field_length)
text_str(cls, value) ==
  ljust(Slice(value, 0, field_length(cls)), field_length(cls))

\* PatientName of the older module field: its own field_length, constructor
\* and __str__
field_PatientName_field_length == 31

field_PatientName_init(patient_name) ==
  IF isalnum(patient_name) THEN Return([patient_name |-> patient_name])
  ELSE Raise("ValueError")

field_PatientName_str(self) ==
  ljust(Slice(self.patient_name, 0, field_PatientName_field_length),
        field_PatientName_field_length)

LOS_min_days == 0

LOS_max_days == 45291

\* a constructor that clamps into the range instead of rejecting
LOS_init_clamping(value) ==
  Return(Field_init("LOS", IF value < LOS_min_days THEN LOS_min_days
                           ELSE Min(value, LOS_max_days)))

LOS_init(value) ==
  IF value < LOS_min_days \/ value > LOS_max_days THEN Raise("ValueError")
  ELSE Return(Field_init("LOS", value))

LOS_str(value) == zfill(int_str(value), field_length("LOS"))

Age_min_age == 0

Age_max_age == 124

Age_init(value) ==
  IF value < Age_min_age \/ value > Age_max_age THEN Raise("ValueError")
  ELSE Return(Field_init("Age", value))

Age_str(value) == zfill(int_str(value), field_length("Age"))

\* DischargeStatus and PrimaryPayer: str(self.value.value).zfill(field_length)
coded_str(cls, value) == zfill(int_str(value), field_length(cls))

Diagnosis_default == Diagnosis_init(<<>>, <<>>)

SecondaryDiagnoses_init(value) ==
  Return(Field_init("SecondaryDiagnoses",
    [i \in 1..SecondaryDiagnoses_occurrence |->
       IF i <= Len(value) THEN value[i] ELSE Diagnosis_default]))

PrincipalProcedure_init(principal_procedure) ==
  Return(Field_init("PrincipalProcedure",
    IF principal_procedure # <<>> THEN principal_procedure[1]
    ELSE ProcedureCode_init(<<>>).val))

\* a constructor that appends to the bounded deque, which keeps the last values
SecondaryProcedures_init_appending(value) ==
  LET given == IF value = <<>> THEN <<>> ELSE value[1]
      drop == IF Len(given) > SecondaryProcedures_occurrence
              THEN Len(given) - SecondaryProcedures_occurrence ELSE 0
  IN Return(Field_init("SecondaryProcedures",
       [i \in 1..SecondaryProcedures_occurrence |->
          IF i + drop <= Len(given) THEN given[i + drop]
          ELSE ProcedureCode_init(<<>>).val]))

\* value is <<>> for None, else <<the sequence of codes>>
SecondaryProcedures_init(value) ==
  Return(Field_init("SecondaryProcedures",
    [i \in 1..SecondaryProcedures_occurrence |->
       IF value # <<>> /\ i <= Len(value[1]) THEN value[1][i]
       ELSE ProcedureCode_init(<<>>).val]))

ProcedureDates_init(value) ==
  Return(Field_init("ProcedureDates",
    [i \in 1..ProcedureDates_occurrence |->
       IF value # <<>> /\ i <= Len(value[1]) THEN value[1][i]
       ELSE Date_init(<<>>)]))

SecondaryDiagnoses_str(value) ==
  concat([i \in 1..Len(value) |-> Diagnosis_str(value[i])])

SecondaryProcedures_str(value) ==
  concat([i \in 1..Len(value) |-> ProcedureCode_str(value[i])])

ProcedureDates_str(value) ==
  concat([i \in 1..Len(value) |-> Date_str(value[i])])

\* cls(arg): the constructor of each field class; a class without validation
\* stores its argument (UNUSED and Filler take none and store "")
Field_new(cls, arg) ==
  CASE cls = "PatientName" -> PatientName_init(arg)
    [] cls = "MedicalRecordNumber" -> MedicalRecordNumber_init(arg)
    [] cls = "AccountNumber" -> AccountNumber_init(arg)
    [] cls = "LOS" -> LOS_init(arg)
    [] cls = "Age" -> Age_init(arg)
    [] cls = "SecondaryDiagnoses" -> SecondaryDiagnoses_init(arg)
    [] cls = "PrincipalProcedure" -> PrincipalProcedure_init(arg)
    [] cls = "SecondaryProcedures" -> SecondaryProcedures_init(arg)
    [] cls = "ProcedureDates" -> ProcedureDates_init(arg)
    [] cls \in {"UNUSED", "Filler"} -> Return(Field_init(cls, <<>>))
    [] OTHER -> Return(Field_init(cls, arg))

\* str(field): the __str__ of each field class.  A __str__ whose body is
\* `pass` returns None, and str() then raises TypeError.
Field_str(self) ==
  LET cls == self.cls
      value == self.value
  IN CASE cls \in {"PatientName", "MedicalRecordNumber", "AccountNumber",
                   "OptionalInformation"} -> Return(text_str(cls, value))
       [] cls \in {"AdmitDate", "DischargeDate", "BirthDate"} ->
            Return(Date_str(value))
       [] cls \in {"DischargeStatus", "PrimaryPayer"} ->
            Return(coded_str(cls, value))
       [] cls = "LOS" -> Return(LOS_str(value))
       [] cls = "Age" -> Return(Age_str(value))
       [] cls = "Sex" -> Return(int_str(value))
       [] cls = "AdmitDiagnosis" -> Return(DiagnosisCode_str(value))
       [] cls = "PrincipalDiagnosis" -> Return(Diagnosis_str(value))
       [] cls = "SecondaryDiagnoses" -> Return(SecondaryDiagnoses_str(value))
       [] cls = "PrincipalProcedure" -> Return(ProcedureCode_str(value))
       [] cls = "SecondaryProcedures" -> Return(SecondaryProcedures_str(value))
       [] cls = "ProcedureDates" -> Return(ProcedureDates_str(value))
       [] cls = "ApplyHACLogic" -> Return(<<value>>)
       [] cls \in {"UNUSED", "Filler"} ->
            Return(ljust(value, field_length(cls)))
       [] cls \in {"InitialDRG",
                   "NumberOfUniqueHospitalAcquiredConditionsMet"} ->
            Return(int_str(value))
       [] cls \in {"MSGMCEVersionUsed", "InitialFourDigitDRG",
                   "FinalFourDigitDRG"} -> Return(value)
       [] OTHER -> Raise("TypeError")

----------------------------------------------------------------------------
(* InputRecord and Batch *)

\* InputRecord(...): args maps each of the 18 required classes to its Field
\* object and "OptionalInformation" to <<>> (None) or <<field>>
InputRecord_init(args) ==
  [cls \in {InputClasses[i] : i \in 1..Len(InputClasses)} |->
     CASE cls = "UNUSED" -> Field_new("UNUSED", <<>>).val
       [] cls = "Filler" -> Field_new("Filler", <<>>).val
       [] cls = "OptionalInformation" ->
            IF args[cls] # <<>> THEN args[cls][1]
            ELSE Field_new("OptionalInformation", <<>>).val
       [] OTHER -> args[cls]]

\* a record that yields age after sex
InputRecord_iter_swapped(self) ==
  [i \in 1..Len(InputClasses) |->
     self[InputClasses[IF i = 10 THEN 11 ELSE IF i = 11 THEN 10 ELSE i]]]

\* InputRecord.__iter__: the fields in the order they are yielded
InputRecord_iter(self) == [i \in 1..Len(InputClasses) |-> self[InputClasses[i]]]

\* InputRecord.__str__: "".join(map(str, self))
InputRecord_str(self) ==
  LET fields == InputRecord_iter(self)
  IN concat([i \in 1..Len(fields) |-> Field_str(fields[i]).val])

\* Batch(records): an empty or None argument gives the empty list
Batch_init(records) == IF records = <<>> THEN <<>> ELSE records

Batch_iter(self) == self

Batch_len(self) == Len(self)

\* Batch.__str__: "\n".join(map(str, self))
Batch_str(self) ==
  join(<<"\n">>, [i \in 1..Len(self) |-> InputRecord_str(self[i])])

\* a batch that inserts at the front
Batch_add_record_front(self, record) == <<record>> \o self

Batch_add_record(self, record) == Append(self, record)

----------------------------------------------------------------------------
(* Decoding: parse_field_substring and each class's parse_field_string *)

\* cast(value) for cast in {int, str}
cast_value(cast, value) == IF cast = "int" THEN int_of(value) ELSE Return(value)

\* value_literal(x): the member of the literal with value x, ValueError if none
literal_of(members, x) == IF x \in members THEN Return(x) ELSE Raise("ValueError")

\* value_literal(cast(value))
convert(cast, members, value) ==
  LET lookup(c) == IF c.ok THEN literal_of(members, c.val) ELSE c
  IN lookup(cast_value(cast, value))

\* a decoder that keeps the break value it stops on
parse_field_substring_keeping(substr, n_fields, field_len, break_values, cast, members) ==
  LET slots == [i \in 1..n_fields |->
                  Slice(substr, (i - 1) * field_len, i * field_len)]
      stop == IF \E i \in 1..n_fields : slots[i] \in break_values
              THEN CHOOSE i \in 1..n_fields :
                     /\ slots[i] \in break_values
                     /\ \A j \in 1..(i - 1) : slots[j] \notin break_values
              ELSE n_fields
      bad == {i \in 1..stop : ~convert(cast, members, slots[i]).ok}
  IN IF bad # {} THEN convert(cast, members, slots[CHOOSE i \in bad : \A j \in bad : i <= j])
     ELSE Return([i \in 1..stop |-> convert(cast, members, slots[i]).val])

\* a decoder that returns nothing when the first slot holds a break value
parse_field_substring_emptying(substr, n_fields, field_len, break_values, cast, members) ==
  LET slots == [i \in 1..n_fields |->
                  Slice(substr, (i - 1) * field_len, i * field_len)]
      kept == IF \E i \in 1..n_fields : slots[i] \in break_values
              THEN (CHOOSE i \in 1..n_fields :
                      /\ slots[i] \in break_values
                      /\ \A j \in 1..(i - 1) : slots[j] \notin break_values) - 1
              ELSE n_fields
      bad == {i \in 1..kept : ~convert(cast, members, slots[i]).ok}
  IN IF bad # {} THEN convert(cast, members, slots[CHOOSE i \in bad : \A j \in bad : i <= j])
     ELSE Return([i \in 1..kept |-> convert(cast, members, slots[i]).val])

RECURSIVE parse_loop(_, _, _, _, _, _, _, _)
\* the loop of parse_field_substring with n_fields iterations left
parse_loop(substr, n_fields, field_len, break_values, cast, members, pos, value_collection) ==
  IF n_fields = 0 THEN Return(value_collection)
  ELSE LET value == Slice(substr, pos, pos + field_len)
           iteration(v) ==
             IF value \in break_values
             THEN IF value_collection = <<>>
                  THEN IF v.ok THEN Return(<<v.val>>) ELSE v
                  ELSE Return(value_collection)
             ELSE IF v.ok
                  THEN parse_loop(substr, n_fields - 1, field_len, break_values,
                                  cast, members, pos + field_len,
                                  Append(value_collection, v.val))
                  ELSE v
       IN iteration(convert(cast, members, value))

parse_field_substring(substr, n_fields, field_len, break_values, cast, members) ==
  parse_loop(substr, n_fields, field_len, break_values, cast, members, 0, <<>>)

\* the member values of the coded literals the input fields take
DischargeDispositionValue == {1, 2, 20}

PayerValue == {1, 6, 9}

SexValue == {0, 1, 2}

ApplyHACLogicValue == {"X", "Z"}

\* the member values of the coded literals of the grouper's output
MedicalSurgicalIndicatorValue == {0, 1, 2}

DRGReturnCodeValue == 0..19

MSGMCEEditReturnCodeValue == 0..4

PrincipalDiagnosisEditReturnFlagValue == 0..3

SecondaryDiagnosisEditReturnFlagValue == 0..3

DRGCCMCCUsageValue == 0..2

HACStatusValue == 0..3

PrincipalDiagnosisHospitalAcquiredConditionAssignmentCriteriaValue ==
  {<<"0", "0">>, <<"0", "1">>, <<"1", "1">>}

SecondaryDiagnosisHospitalAcquiredConditionAssignmentCriteriaValue ==
  {<<"0", "0">>, <<"0", "1">>, <<" ", " ">>}

ProcedureHACAssignmentCriteriaValue == {<<"0", "0">>, <<"0", "1">>, <<" ", " ">>}

ProcedureEditReturnFlagValue == {<<"0", "0">>, <<"0", "1">>}

DiagnosisHospitalAcquiredConditionUsageValue == {<<"0">>, <<"1">>, <<" ">>}

\* EnumClass(int(field_str))
literal_of_int(members, field_str) ==
  LET lookup(n) == IF n.ok THEN literal_of(members, n.val) ELSE n
  IN lookup(int_of(field_str))

\* Date.from_string: a blank string is the absent date, mm/dd/yyyy a date,
\* anything else an error
Date_from_string(t) ==
  LET isnum(a, b) == \A i \in a..b : t[i] \in DigitChars
      num(a, b) == digits_value(SubSeq(t, a, b))
  IN IF strip(t) = <<>> THEN Return(Date_init(<<>>))
     ELSE IF /\ Len(t) = 10
             /\ t[3] = "/" /\ t[6] = "/"
             /\ isnum(1, 2) /\ isnum(4, 5) /\ isnum(7, 10)
             /\ num(1, 2) \in 1..12 /\ num(4, 5) \in 1..31 /\ num(7, 10) >= 1
          THEN Return(Date_init(<<num(1, 2), num(4, 5), num(7, 10)>>))
          ELSE Raise("ValueError")

\* Diagnosis.extract_from_output: the 7-byte code, blank-stripped, and the
\* POA byte
Diagnosis_extract_from_output(t) ==
  LET p == Slice(t, DiagnosisCode_max_len, Diagnosis_field_length)
      diagnosis(c) ==
        IF ~c.ok THEN c
        ELSE IF Len(p) # 1 \/ p[1] \notin PresentOnAdmissionValue
             THEN Raise("ValueError")
             ELSE Return(Diagnosis_init(<<c.val>>, <<p[1]>>))
  IN diagnosis(DiagnosisCode_init(strip(Slice(t, 0, DiagnosisCode_max_len))))

\* a decoder that reads the slot as a whole number of ten-thousandths
float_of_implicit(t) ==
  LET scaled(r) == IF r.ok THEN Return([digits |-> r.val, exponent |-> 0 - 4]) ELSE r
  IN scaled(int_of(t))

\* float(str) for a plain decimal: the value is digits * 10^exponent
float_of(t) ==
  LET isnum(q) == \A i \in 1..Len(q) : q[i] \in DigitChars
      lastnz(frac) ==
        IF \E i \in 1..Len(frac) : frac[i] # "0"
        THEN CHOOSE i \in 1..Len(frac) :
               frac[i] # "0" /\ \A j \in (i + 1)..Len(frac) : frac[j] = "0"
        ELSE 0
      value(negative, whole, frac, last) ==
        IF isnum(whole) /\ isnum(frac) /\ Len(whole) + Len(frac) > 0
        THEN Return([digits |->
                       IF negative
                       THEN 0 - digits_value(whole \o SubSeq(frac, 1, last))
                       ELSE digits_value(whole \o SubSeq(frac, 1, last)),
                     exponent |-> 0 - last])
        ELSE Raise("ValueError")
      split(negative, b, dots) ==
        IF Cardinality(dots) > 1 THEN Raise("ValueError")
        ELSE IF dots = {} THEN value(negative, b, <<>>, 0)
        ELSE value(negative, SubSeq(b, 1, (CHOOSE i \in dots : TRUE) - 1),
                   SubSeq(b, (CHOOSE i \in dots : TRUE) + 1, Len(b)),
                   lastnz(SubSeq(b, (CHOOSE i \in dots : TRUE) + 1, Len(b))))
      unsigned(negative, b) == split(negative, b, {i \in 1..Len(b) : b[i] = "."})
      literal(u) ==
        IF Len(u) > 0 /\ u[1] \in {"+", "-"}
        THEN unsigned(u[1] = "-", Tail(u))
        ELSE unsigned(FALSE, u)
  IN literal(strip(t))

\* the loop appends one diagnosis per slot, 24 in all; it has no break, and
\* the first slot that fails to decode raises
SecondaryDiagnoses_parse_field_string(field_str) ==
  LET diagnoses ==
        [i \in 1..SecondaryDiagnoses_occurrence |->
           Diagnosis_extract_from_output(
             Slice(field_str, (i - 1) * Diagnosis_field_length,
                   i * Diagnosis_field_length))]
      raising == {i \in 1..SecondaryDiagnoses_occurrence : ~diagnoses[i].ok}
  IN IF raising = {}
     THEN Return([i \in 1..SecondaryDiagnoses_occurrence |-> diagnoses[i].val])
     ELSE diagnoses[CHOOSE i \in raising : \A j \in raising : i <= j]

\* the loop breaks at the first slot that is blank after strip() and appends
\* the code of every slot before it
\* a decoder that skips the blank slots and goes on
SecondaryProcedures_parse_field_string_skipping(field_str) ==
  LET code_str ==
        [i \in 1..SecondaryProcedures_occurrence |->
           strip(Slice(field_str, (i - 1) * ProcedureCode_field_length,
                       i * ProcedureCode_field_length))]
      filled == {i \in 1..SecondaryProcedures_occurrence : code_str[i] # <<>>}
      nth(k) == CHOOSE i \in filled : Cardinality({j \in filled : j <= i}) = k
      procedures == [k \in 1..Cardinality(filled) |-> ProcedureCode_init(code_str[nth(k)])]
      raising == {k \in 1..Cardinality(filled) : ~procedures[k].ok}
  IN IF raising = {} THEN Return([k \in 1..Cardinality(filled) |-> procedures[k].val])
     ELSE procedures[CHOOSE k \in raising : \A j \in raising : k <= j]

SecondaryProcedures_parse_field_string(field_str) ==
  LET code_str ==
        [i \in 1..SecondaryProcedures_occurrence |->
           strip(Slice(field_str, (i - 1) * ProcedureCode_field_length,
                       i * ProcedureCode_field_length))]
      blank == {i \in 1..SecondaryProcedures_occurrence : code_str[i] = <<>>}
      last == IF blank = {} THEN SecondaryProcedures_occurrence
              ELSE (CHOOSE i \in blank : \A j \in blank : i <= j) - 1
      procedures == [i \in 1..last |-> ProcedureCode_init(code_str[i])]
      raising == {i \in 1..last : ~procedures[i].ok}
  IN IF raising = {} THEN Return([i \in 1..last |-> procedures[i].val])
     ELSE procedures[CHOOSE i \in raising : \A j \in raising : i <= j]

\* the loop breaks at the first slot that is blank after strip() and appends
\* the date of every slot before it
ProcedureDates_parse_field_string(field_str) ==
  LET date_str ==
        [i \in 1..ProcedureDates_occurrence |->
           strip(Slice(field_str, (i - 1) * Date_field_length,
                       i * Date_field_length))]
      blank == {i \in 1..ProcedureDates_occurrence : date_str[i] = <<>>}
      last == IF blank = {} THEN ProcedureDates_occurrence
              ELSE (CHOOSE i \in blank : \A j \in blank : i <= j) - 1
      procedure_dates == [i \in 1..last |-> Date_from_string(date_str[i])]
      raising == {i \in 1..last : ~procedure_dates[i].ok}
  IN IF raising = {} THEN Return([i \in 1..last |-> procedure_dates[i].val])
     ELSE procedure_dates[CHOOSE i \in raising : \A j \in raising : i <= j]

\* the nested group decoders: occurrence groups of group_len characters, each
\* decoded by parse_field_substring; the first group that fails raises
group_parse(field_str, occurrence, group_len, n_fields, field_len, break_values, cast, members) ==
  LET flags ==
        [g \in 1..occurrence |->
           parse_field_substring(Slice(field_str, (g - 1) * group_len, g * group_len),
                                 n_fields, field_len, break_values, cast, members)]
      raising == {g \in 1..occurrence : ~flags[g].ok}
  IN IF raising = {} THEN Return([g \in 1..occurrence |-> flags[g].val])
     ELSE flags[CHOOSE g \in raising : \A h \in raising : g <= h]

\* cls.parse_field_string(field_str)
parse_field_string(cls, field_str) ==
  CASE cls \in {"PatientName", "MedicalRecordNumber", "AccountNumber",
                "OptionalInformation"} -> Return(strip(field_str))
    [] cls \in {"AdmitDate", "DischargeDate", "BirthDate"} ->
         Date_from_string(field_str)
    [] cls = "DischargeStatus" ->
         literal_of_int(DischargeDispositionValue, field_str)
    [] cls = "PrimaryPayer" -> literal_of_int(PayerValue, field_str)
    [] cls \in {"LOS", "Age", "InitialDRG", "FinalMDC", "FinalDRG",
                "DiagnosisCodeCount", "ProcedureCodeCount",
                "NumberOfUniqueHospitalAcquiredConditionsMet"} ->
         int_of(field_str)
    [] cls = "Sex" -> literal_of_int(SexValue, field_str)
    [] cls = "AdmitDiagnosis" -> DiagnosisCode_init(field_str)
    [] cls = "PrincipalDiagnosis" -> Diagnosis_extract_from_output(field_str)
    [] cls = "SecondaryDiagnoses" ->
         SecondaryDiagnoses_parse_field_string(field_str)
    [] cls = "PrincipalProcedure" -> ProcedureCode_init(field_str)
    [] cls = "SecondaryProcedures" ->
         SecondaryProcedures_parse_field_string(field_str)
    [] cls = "ProcedureDates" -> ProcedureDates_parse_field_string(field_str)
    [] cls = "ApplyHACLogic" ->
         IF Len(field_str) = 1 /\ field_str[1] \in ApplyHACLogicValue
         THEN Return(field_str[1]) ELSE Raise("ValueError")
    [] cls \in {"UNUSED", "Filler"} -> Raise("NotImplementedError")
    [] cls \in {"MSGMCEVersionUsed", "InitialFourDigitDRG",
                "FinalFourDigitDRG"} -> Return(field_str)
    [] cls \in {"InitialMSIndicator", "FinalMSIndicator"} ->
         literal_of_int(MedicalSurgicalIndicatorValue, field_str)
    [] cls = "DRGReturnCode" -> literal_of_int(DRGReturnCodeValue, field_str)
    [] cls = "MSGMCEEditReturnCode" ->
         literal_of_int(MSGMCEEditReturnCodeValue, field_str)
    [] cls = "PrincipalDiagnosisEditReturnFlag" ->
         parse_field_substring(field_str, 4, 2, {<<"0", "0">>}, "int",
                               PrincipalDiagnosisEditReturnFlagValue)
    [] cls = "PrincipalDiagnosisHospitalAcquiredConditionCriteria" ->
         parse_field_substring(field_str, 5, 2, {<<"0", "0">>, <<"1", "1">>}, "str",
           PrincipalDiagnosisHospitalAcquiredConditionAssignmentCriteriaValue)
    [] cls = "PrincipalDiagnosisHospitalAcquiredConditionUsage" ->
         parse_field_substring(field_str, 5, 1, {<<"0">>, <<" ">>}, "str",
                               DiagnosisHospitalAcquiredConditionUsageValue)
    [] cls = "SecondaryDiagnosisReturnFlag" ->
         group_parse(field_str, 24, 2 * 4, 4, 2, {<<"0", "0">>}, "int",
                          SecondaryDiagnosisEditReturnFlagValue)
    [] cls = "SecondaryDiagnosisHospitalAcquiredConditionAssignmentCriteria" ->
         group_parse(field_str, 24, 2 * 5, 5, 2,
           {<<" ", " ">>, <<"0", "0">>}, "str",
           SecondaryDiagnosisHospitalAcquiredConditionAssignmentCriteriaValue)
    [] cls = "SecondaryDiagnosisHospitalAcquiredConditionUsage" ->
         group_parse(field_str, 24, 1 * 5, 5, 1, {<<" ">>, <<"0">>}, "str",
                          DiagnosisHospitalAcquiredConditionUsageValue)
    [] cls = "ProcedureEditReturnFlag" ->
         group_parse(field_str, 25, 2 * 4, 4, 2, {<<"0", "0">>}, "str",
                          ProcedureEditReturnFlagValue)
    [] cls = "ProcedureHospitalAcquiredConditionAssignmentCriteria" ->
         group_parse(field_str, 25, 2 * 5, 5, 2,
           {<<" ", " ">>, <<"0", "0">>}, "str",
           ProcedureHACAssignmentCriteriaValue)
    [] cls \in {"FinalDRGCCMCCUsage", "InitialDRGCCMCCUsage"} ->
         literal_of_int(DRGCCMCCUsageValue, field_str)
    [] cls = "HospitalAcquiredConditionStatus" ->
         literal_of_int(HACStatusValue, field_str)
    [] cls = "CostWeight" -> float_of(field_str)

----------------------------------------------------------------------------
(* OutputRecord: the field classes decoded from an output line and from_line *)

OutputRecord_fields ==
  <<"PatientName", "MedicalRecordNumber", "AccountNumber", "AdmitDate",
    "DischargeDate", "DischargeStatus", "PrimaryPayer", "LOS", "BirthDate",
    "Age", "Sex", "AdmitDiagnosis", "PrincipalDiagnosis",
    "SecondaryDiagnoses", "PrincipalProcedure", "SecondaryProcedures",
    "ProcedureDates", "ApplyHACLogic", "OptionalInformation",
    "MSGMCEVersionUsed", "InitialDRG", "InitialMSIndicator", "FinalMDC",
    "FinalDRG", "FinalMSIndicator", "DRGReturnCode", "MSGMCEEditReturnCode",
    "DiagnosisCodeCount", "ProcedureCodeCount",
    "PrincipalDiagnosisEditReturnFlag",
    "PrincipalDiagnosisHospitalAcquiredConditionCriteria",
    "PrincipalDiagnosisHospitalAcquiredConditionUsage",
    "SecondaryDiagnosisReturnFlag",
    "SecondaryDiagnosisHospitalAcquiredConditionAssignmentCriteria",
    "SecondaryDiagnosisHospitalAcquiredConditionUsage",
    "ProcedureEditReturnFlag",
    "ProcedureHospitalAcquiredConditionAssignmentCriteria",
    "InitialFourDigitDRG", "FinalFourDigitDRG", "FinalDRGCCMCCUsage",
    "InitialDRGCCMCCUsage", "NumberOfUniqueHospitalAcquiredConditionsMet",
    "HospitalAcquiredConditionStatus", "CostWeight">>

\* cls.name: the attribute of the output record that holds the field
name(cls) ==
  CASE cls = "PatientName" ->
         "patient_name"
    [] cls = "MedicalRecordNumber" ->
         "medical_record_number"
    [] cls = "AccountNumber" ->
         "account_number"
    [] cls = "AdmitDate" ->
         "admit_date"
    [] cls = "DischargeDate" ->
         "discharge_date"
    [] cls = "DischargeStatus" ->
         "discharge_status"
    [] cls = "PrimaryPayer" ->
         "primary_payer"
    [] cls = "LOS" ->
         "los"
    [] cls = "BirthDate" ->
         "birth_date"
    [] cls = "Age" ->
         "age"
    [] cls = "Sex" ->
         "sex"
    [] cls = "AdmitDiagnosis" ->
         "admit_diagnosis"
    [] cls = "PrincipalDiagnosis" ->
         "principal_diagnosis"
    [] cls = "SecondaryDiagnoses" ->
         "secondary_diagnoses"
    [] cls = "PrincipalProcedure" ->
         "principal_procedure"
    [] cls = "SecondaryProcedures" ->
         "secondary_procedures"
    [] cls = "ProcedureDates" ->
         "procedure_date"
    [] cls = "ApplyHACLogic" ->
         "apply_hac_logic"
    [] cls = "UNUSED" ->
         "unused"
    [] cls = "OptionalInformation" ->
         "optional_information"
    [] cls = "Filler" ->
         "filler"
    [] cls = "MSGMCEVersionUsed" ->
         "msg_mce_version_used"
    [] cls = "InitialDRG" ->
         "initial_drg"
    [] cls = "InitialMSIndicator" ->
         "initial_medical_surgical_indicator"
    [] cls = "FinalMDC" ->
         "final_mdc"
    [] cls = "FinalDRG" ->
         "final_drg"
    [] cls = "FinalMSIndicator" ->
         "final_medical_surgical_indicator"
    [] cls = "DRGReturnCode" ->
         "drg_return_code"
    [] cls = "MSGMCEEditReturnCode" ->
         "msg_mce_edit_return_code"
    [] cls = "DiagnosisCodeCount" ->
         "diagnosis_code_count"
    [] cls = "ProcedureCodeCount" ->
         "procedure_code_count"
    [] cls = "PrincipalDiagnosisEditReturnFlag" ->
         "principal_diagnosis_edit_return_flag"
    [] cls = "PrincipalDiagnosisHospitalAcquiredConditionCriteria" ->
         "principal_diagnosis_hospital_acquired_condition_assignment_criteria"
    [] cls = "PrincipalDiagnosisHospitalAcquiredConditionUsage" ->
         "principal_diagnosis_hospital_acquired_condition_usage"
    [] cls = "SecondaryDiagnosisReturnFlag" ->
         "secondary_diagnosis_return_flag"
    [] cls = "SecondaryDiagnosisHospitalAcquiredConditionAssignmentCriteria" ->
         "secondary_diagnosis_hospital_acquired_condition_assignment_criteria"
    [] cls = "SecondaryDiagnosisHospitalAcquiredConditionUsage" ->
         "secondary_diagnosis_hospital_acquired_condition_usage"
    [] cls = "ProcedureEditReturnFlag" ->
         "procedure_edit_return_flag"
    [] cls = "ProcedureHospitalAcquiredConditionAssignmentCriteria" ->
         "procedure_hospital_acquired_condition_assignment_criteria"
    [] cls = "InitialFourDigitDRG" ->
         "initial_four_digit_drg"
    [] cls = "FinalFourDigitDRG" ->
         "final_four_digit_drg"
    [] cls = "FinalDRGCCMCCUsage" ->
         "final_drg_cc_mcc_usage"
    [] cls = "InitialDRGCCMCCUsage" ->
         "initial_drg_cc_mcc_usage"
    [] cls = "NumberOfUniqueHospitalAcquiredConditionsMet" ->
         "number_of_unique_hospital_acquired_conditions_met"
    [] cls = "HospitalAcquiredConditionStatus" ->
         "hospital_acquired_condition_status"
    [] cls = "CostWeight" ->
         "cost_weight"

\* cls.new_from_output_string(line): the class's slot of the line, decoded
new_from_output_string(cls, output) ==
  parse_field_string(cls, Slice(output, position(cls), position(cls) + field_length(cls)))

\* a from_line that skips the fields that fail to decode
from_line_loop_skipping(output, i, attrs) ==
  LET results == [k \in i..Len(OutputRecord_fields) |->
                    new_from_output_string(OutputRecord_fields[k], output)]
      decoded == {k \in DOMAIN results : results[k].ok}
  IN Return([n \in DOMAIN attrs \cup {name(OutputRecord_fields[k]) : k \in decoded} |->
               IF \E k \in decoded : name(OutputRecord_fields[k]) = n
               THEN results[CHOOSE k \in decoded : name(OutputRecord_fields[k]) = n].val
               ELSE attrs[n]])

\* the loop of from_line from the i-th field on; attrs holds the attributes
\* set so far.  The first field that fails to decode raises: the exception
\* leaves the loop and the record is lost.
from_line_loop(output, i, attrs) ==
  LET results == [k \in i..Len(OutputRecord_fields) |->
                    new_from_output_string(OutputRecord_fields[k], output)]
      raising == {k \in i..Len(OutputRecord_fields) : ~results[k].ok}
  IN IF raising # {} THEN results[CHOOSE k \in raising : \A m \in raising : k <= m]
     ELSE Return([n \in DOMAIN attrs \cup {name(OutputRecord_fields[k]) :
                                             k \in i..Len(OutputRecord_fields)} |->
                    IF \E k \in i..Len(OutputRecord_fields) : name(OutputRecord_fields[k]) = n
                    THEN results[CHOOSE k \in i..Len(OutputRecord_fields) :
                                   /\ name(OutputRecord_fields[k]) = n
                                   /\ \A m \in i..Len(OutputRecord_fields) :
                                        name(OutputRecord_fields[m]) = n => m <= k].val
                    ELSE attrs[n]])

\* OutputRecord.from_line(line): the attributes of the record returned
OutputRecord_from_line(output) ==
  from_line_loop(output, 1, [n \in {"record"} |-> output])

----------------------------------------------------------------------------
(* The inputs the model draws: the example record of the test suite and    *)
(* records that differ from it in one field.                               *)

MaxNameLen == 33

MaxCodeLen == 8

MaxBatch == 2

MaxInitial == 1

RecordWidth == 835

Name == <<"J", "o", "n", "a", "t", "h", "a", "n", " ", "G", "u", "p", "t", "o", "n">>

NameTemplate == Name \o <<" ">> \o Name \o <<" ">> \o Name

NameOfLen(n) == Slice(NameTemplate, 0, n)

CodeTemplate == <<"5", "A", "1", "9", "5", "5", "Z", "X", "Y", "W", "H", "J">>

CodeOfLen(n) == Slice(CodeTemplate, 0, n)

J189 == <<"J", "1", "8", "9">>

J18_9 == <<"J", "1", "8", ".", "9">>

E43 == <<"E", "4", "3">>

\* cls(DiagnosisCode(code)) and cls(ProcedureCode(code)), or the error raised
\* on the way
CodeField(cls, code) ==
  LET c == IF cls = "AdmitDiagnosis" THEN DiagnosisCode_init(code)
           ELSE ProcedureCode_init(code)
  IN IF ~c.ok THEN c
     ELSE IF cls = "PrincipalProcedure" THEN Field_new(cls, <<c.val>>)
     ELSE Field_new(cls, c.val)

\* PrincipalDiagnosis(Diagnosis(DiagnosisCode(code), poa))
DiagnosisField(code, poa) ==
  LET c == DiagnosisCode_init(code)
  IN IF ~c.ok THEN c
     ELSE Field_new("PrincipalDiagnosis", Diagnosis_init(<<c.val>>, <<poa>>))

ExampleArgs ==
  [cls \in {InputClasses[i] : i \in 1..Len(InputClasses)}
             \ {"UNUSED", "Filler"} |->
     CASE cls = "PatientName" -> Field_new(cls, Name)
       [] cls = "MedicalRecordNumber" ->
            Field_new(cls, <<"1", "2", "3", "4", "5", "6", "7">>)
       [] cls = "AccountNumber" ->
            Field_new(cls, <<"0", "9", "8", "7", "6", "5", "4", "3", "2", "1">>)
       [] cls = "AdmitDate" -> Field_new(cls, Date_init(<<8, 1, 2022>>))
       [] cls = "DischargeDate" -> Field_new(cls, Date_init(<<8, 9, 2022>>))
       [] cls = "DischargeStatus" -> Field_new(cls, 1)
       [] cls = "PrimaryPayer" -> Field_new(cls, 6)
       [] cls = "LOS" -> Field_new(cls, 8)
       [] cls = "BirthDate" -> Field_new(cls, Date_init(<<6, 19, 1980>>))
       [] cls = "Age" -> Field_new(cls, 35)
       [] cls = "Sex" -> Field_new(cls, 1)
       [] cls = "AdmitDiagnosis" -> CodeField(cls, J189)
       [] cls = "PrincipalDiagnosis" -> DiagnosisField(J189, "Y")
       [] cls = "SecondaryDiagnoses" ->
            Field_new(cls,
              <<Diagnosis_init(<<DiagnosisCode_init(E43).val>>, <<"Y">>)>>)
       [] cls = "PrincipalProcedure" -> CodeField(cls, CodeOfLen(7))
       [] cls = "SecondaryProcedures" -> Field_new(cls, <<>>)
       [] cls = "ProcedureDates" ->
            Field_new(cls, << <<Date_init(<<8, 1, 2022>>)>> >>)
       [] cls = "ApplyHACLogic" -> Field_new(cls, "Z")
       [] cls = "OptionalInformation" -> Return(<<>>)]

\* the fields that replace one field of the example: <<class, constructor result>>
Variations ==
  << <<"PatientName", Field_new("PatientName", NameOfLen(0))>>,
     <<"PatientName", Field_new("PatientName", NameOfLen(MaxNameLen))>>,
     <<"PatientName", Field_new("PatientName", <<"J", "-", "G">>)>>,
     <<"PatientName", Field_new("PatientName", <<"J", "\n", "G">>)>>,
     <<"AdmitDiagnosis", CodeField("AdmitDiagnosis", CodeOfLen(0))>>,
     <<"AdmitDiagnosis", CodeField("AdmitDiagnosis", J18_9)>>,
     <<"AdmitDiagnosis", CodeField("AdmitDiagnosis", CodeOfLen(MaxCodeLen))>>,
     <<"AdmitDiagnosis", CodeField("AdmitDiagnosis", <<"J", " ", "1">>)>>,
     <<"PrincipalProcedure", CodeField("PrincipalProcedure", CodeOfLen(0))>>,
     <<"LOS", Field_new("LOS", LOS_max_days)>>,
     <<"LOS", Field_new("LOS", LOS_max_days + 1)>>,
     <<"OptionalInformation",
       Return(<<Field_new("OptionalInformation", NameTemplate \o NameTemplate).val>>)>> >>

\* the argument lists of InputRecord whose every field was constructed
\* without error
RecordArgs ==
  LET results ==
        {ExampleArgs} \cup
        {[ExampleArgs EXCEPT ![Variations[i][1]] = Variations[i][2]] :
           i \in 1..Len(Variations)}
  IN {[cls \in DOMAIN a |-> a[cls].val] :
        a \in {r \in results : \A cls \in DOMAIN r : r[cls].ok}}

Records == {InputRecord_init(a) : a \in RecordArgs}

RECURSIVE SeqsUpTo(_, _)
\* the sequences over S of length at most n
SeqsUpTo(S, n) ==
  IF n = 0 THEN {<<>>}
  ELSE LET shorter == SeqsUpTo(S, n - 1)
       IN shorter \cup {Append(q, x) : q \in {t \in shorter : Len(t) = n - 1}, x \in S}

----------------------------------------------------------------------------
(* State.  batch is Batch.records; initial is the argument the batch was   *)
(* constructed with and added the arguments of the add_record calls so     *)
(* far; out is what the last str(batch) returned and for which records.    *)
(* field, text and parsed are a field object, its encoding and the decoded *)
(* value of one codec run; line and outrec an output line and the result   *)
(* of OutputRecord.from_line on it.                                        *)

NoCall == [ok |-> FALSE, err |-> "not called", val |-> <<>>]

NoField == [cls |-> "", arg |-> <<>>, res |-> NoCall]

NoText == [cls |-> "", res |-> NoCall]

NoParse == [cls |-> "", input |-> <<>>, res |-> NoCall]

NoOut == [called |-> FALSE, records |-> <<>>, text |-> <<>>]

NoContainer == [cls |-> "", args |-> <<>>, res |-> NoCall, text |-> NoCall]

\* nothing read, written, constructed or started outside the codec
IoIdle ==
  /\ config = <<>>
  /\ fs = <<>>
  /\ cwd = ""
  /\ handler = <<>>
  /\ run = <<>>
  /\ proc = ""

CodecIdle ==
  /\ field = NoField
  /\ text = NoText
  /\ parsed = NoParse
  /\ line = <<>>
  /\ outrec = NoCall
  /\ container = NoContainer
  /\ IoIdle

InitBatch ==
  /\ initial \in SeqsUpTo(Records, MaxInitial)
  /\ batch = Batch_init(initial)
  /\ added = <<>>
  /\ out = NoOut
  /\ CodecIdle

add_record(record) ==
  /\ Len(batch) < MaxBatch
  /\ batch' = Batch_add_record(batch, record)
  /\ added' = Append(added, record)
  /\ UNCHANGED <<initial, out, field, text, parsed, line, outrec, container, io_vars>>

str_batch ==
  /\ out' = [called |-> TRUE, records |-> Batch_iter(batch), text |-> Batch_str(batch)]
  /\ UNCHANGED <<batch, initial, added, field, text, parsed, line, outrec, container, io_vars>>

NextBatch ==
  \/ \E record \in Records : add_record(record)
  \/ str_batch

SpecBatch == InitBatch /\ [][NextBatch]_vars

----------------------------------------------------------------------------
(* The codec runs, each from the idle state: a field is constructed,       *)
(* encoded and its encoding decoded; a slice or a line of grouper output   *)
(* is decoded.                                                             *)

MaxFields == 3

MaxDx == 3

IntSpan == 2

FieldClasses ==
  {InputClasses[i] : i \in 1..Len(InputClasses)} \cup
  {"MSGMCEVersionUsed", "InitialDRG", "FinalMDC", "FinalDRG",
   "InitialFourDigitDRG", "NumberOfUniqueHospitalAcquiredConditionsMet"}

\* the classes whose constructor has a default argument, and that argument
DefaultClasses ==
  {"PatientName", "MedicalRecordNumber", "AccountNumber", "PrincipalProcedure",
   "SecondaryProcedures", "ProcedureDates", "UNUSED", "OptionalInformation",
   "Filler"}

Codes == {CodeOfLen(n) : n \in {0, 3, 7, MaxCodeLen}} \cup {J18_9, E43}

DxObject(code, poa) == Diagnosis_init(<<DiagnosisCode_init(code).val>>, <<poa>>)

IntValues ==
  UNION {(n - IntSpan)..(n + IntSpan) : n \in {0, Age_max_age, LOS_max_days}}

\* the arguments the model constructs each class with
FieldArgs(cls) ==
  CASE cls = "PatientName" ->
         {NameOfLen(n) : n \in {0, 8, 31, MaxNameLen}} \cup {<<"J", "-", "G">>}
    [] cls \in {"MedicalRecordNumber", "AccountNumber"} ->
         {<<>>, <<"1", "2", "3", "4", "5", "6", "7">>, <<"1", " ", "2">>,
          CodeTemplate \o CodeTemplate}
    [] cls \in {"AdmitDate", "DischargeDate", "BirthDate"} ->
         {Date_init(<<>>), Date_init(<<8, 1, 2022>>), Date_init(<<12, 31, 1980>>)}
    [] cls = "DischargeStatus" -> DischargeDispositionValue
    [] cls = "PrimaryPayer" -> PayerValue
    [] cls \in {"LOS", "Age"} -> IntValues
    [] cls = "Sex" -> SexValue
    [] cls = "AdmitDiagnosis" -> {DiagnosisCode_init(c).val : c \in Codes}
    [] cls = "PrincipalDiagnosis" ->
         {Diagnosis_default, DxObject(J189, "Y"), DxObject(CodeOfLen(MaxCodeLen), "N")}
    [] cls = "SecondaryDiagnoses" ->
         {[i \in 1..k |-> DxObject(E43, "Y")] : k \in {0, 1, MaxDx, 25}} \cup
         {[i \in 1..25 |-> DxObject(CodeOfLen(1 + (i % 7)), "Y")]} \cup
         {<<DxObject(E43, "Y"), Diagnosis_default, DxObject(J189, "N")>>}
    [] cls = "PrincipalProcedure" ->
         {<<>>} \cup {<<ProcedureCode_init(c).val>> : c \in Codes}
    [] cls = "SecondaryProcedures" ->
         {<<>>} \cup
         {<<[i \in 1..k |-> ProcedureCode_init(CodeOfLen(7)).val]>> : k \in {0, 2, 25}} \cup
         {<<[i \in 1..25 |-> ProcedureCode_init(CodeOfLen(1 + (i % 7))).val]>>} \cup
         {<<[i \in 1..3 |-> ProcedureCode_init(IF i = 2 THEN <<>> ELSE E43).val]>>}
    [] cls = "ProcedureDates" ->
         {<<>>} \cup {<<[i \in 1..k |-> Date_init(<<8, 1, 2022>>)]>> : k \in {1, 26}} \cup
         {<<[i \in 1..26 |-> Date_init(<<1 + (i % 12), i, 2022>>)]>>} \cup
         {<<[i \in 1..3 |-> Date_init(IF i = 2 THEN <<>> ELSE <<8, i, 2022>>)]>>}
    [] cls = "ApplyHACLogic" -> ApplyHACLogicValue
    [] cls \in {"UNUSED", "Filler"} -> {<<>>}
    [] cls = "OptionalInformation" -> {<<>>, Name, NameTemplate \o NameTemplate}
    [] cls \in {"MSGMCEVersionUsed"} -> {<<"4", "0", "0">>}
    [] cls \in {"InitialFourDigitDRG"} -> {<<"0", "1", "9", "3">>}
    [] cls \in {"InitialDRG", "FinalMDC", "FinalDRG",
                "NumberOfUniqueHospitalAcquiredConditionsMet"} -> {4, 12, 193}

\* k diagnoses followed by blank slots, 24 slots in all
DxSlots(k) ==
  concat([i \in 1..SecondaryDiagnoses_occurrence |->
            IF i <= k THEN Diagnosis_str(DxObject(E43, "Y"))
            ELSE Repeat(" ", Diagnosis_field_length)])

\* the slices of grouper output the model decodes
SampleSlices(cls) ==
  CASE cls = "SecondaryDiagnoses" ->
         {DxSlots(k) : k \in 0..MaxDx} \cup
         {Diagnosis_str(DxObject(E43, "Y")) \o Repeat(" ", Diagnosis_field_length)
            \o DxSlots(1)}
    [] cls = "SecondaryProcedures" ->
         {ljust(CodeOfLen(7) \o CodeOfLen(4), 168),
          ljust(CodeOfLen(7) \o Repeat(" ", 7) \o CodeOfLen(7), 168)}
    [] cls = "ProcedureDates" ->
         {ljust(strftime(<<8, 1, 2022>>), 250),
          ljust(Repeat(" ", 10) \o strftime(<<8, 1, 2022>>), 250)}
    [] cls = "PrincipalDiagnosisEditReturnFlag" ->
         {<<"0", "0", "0", "0", "0", "0", "0", "0">>,
          <<"0", "1", "0", "2", "0", "0", "0", "0">>,
          <<"0", "1", "0", "0", "0", "2", "0", "0">>,
          <<"0", "1", "0", "2", "0", "3", "0", "1">>,
          <<"0", "9", "0", "0", "0", "0", "0", "0">>}
    [] cls = "SecondaryDiagnosisReturnFlag" ->
         {<<"0", "1", "0", "2", "0", "0", "0", "0">> \o Repeat("0", 8)
            \o <<"0", "1", "0", "2", "0", "3", "0", "1">> \o Repeat("0", 168),
          Repeat("0", 192),
          <<"0", "1", "0", "0", "0", "2", "0", "0">> \o Repeat("0", 184)}
    [] cls = "LOS" ->
         {<<"0", "0", "0", "0", "8">>, <<" ", " ", " ", " ", " ">>,
          <<"4", "5", "2", "9", "X">>}
    [] cls = "AdmitDiagnosis" -> {ljust(J189, 7), CodeOfLen(7), Repeat(" ", 7)}
    [] cls = "CostWeight" ->
         {<<"0", "0", "1", "2", "3", "4", "5">>, <<"0", "1", ".", "2", "3", "4", "5">>,
          <<"0", "0", ".", "9", "8", "7", "0">>, Repeat(" ", 7)}
    [] cls = "UNUSED" -> {<<" ">>}

SliceClasses ==
  {"SecondaryDiagnoses", "SecondaryProcedures", "ProcedureDates",
   "PrincipalDiagnosisEditReturnFlag", "SecondaryDiagnosisReturnFlag", "LOS",
   "AdmitDiagnosis", "CostWeight", "UNUSED"}

\* the sub-slots and the parameters parse_field_substring is called with
SlotValues == {<<"0", "0">>, <<"0", "1">>, <<"0", "2">>, <<" ", " ">>, <<"0", "X">>}

SubstringParams ==
  <<[break_values |-> {<<"0", "0">>}, cast |-> "int", members |-> 0..3],
    [break_values |-> {<<"0", "0">>}, cast |-> "int", members |-> 1..3],
    [break_values |-> {<<"0", "0">>, <<" ", " ">>}, cast |-> "str",
     members |-> {<<"0", "0">>, <<"0", "1">>, <<"0", "2">>, <<" ", " ">>}]>>

\* a line of grouper output every field of which decodes
GoodSlice(cls) ==
  CASE cls = "MSGMCEVersionUsed" -> <<"4", "0", "0">>
    [] cls = "InitialDRG" -> <<"1", "9", "3">>
    [] cls = "FinalMDC" -> <<"1", "0", "4">>
    [] cls = "FinalDRG" -> <<"1", "9", "3">>
    [] cls = "FinalMSIndicator" -> <<"1">>
    [] cls = "DiagnosisCodeCount" -> <<"0", "2">>
    [] cls = "ProcedureCodeCount" -> <<"0", "1">>
    [] cls = "PrincipalDiagnosisEditReturnFlag" ->
         <<"0", "1", "0", "2", "0", "0", "0", "0">>
    [] cls \in {"InitialFourDigitDRG", "FinalFourDigitDRG"} -> <<"0", "1", "9", "3">>
    [] cls = "FinalDRGCCMCCUsage" -> <<"1">>
    [] cls = "InitialDRGCCMCCUsage" -> <<"2">>
    [] cls = "CostWeight" -> <<"0", "1", ".", "2", "3", "4", "5">>
    [] OTHER -> Repeat("0", field_length(cls))

GoodLine ==
  LET r == InputRecord_init(
             [cls \in DOMAIN ExampleArgs |->
                IF cls = "AdmitDiagnosis" THEN CodeField(cls, CodeOfLen(7)).val
                ELSE ExampleArgs[cls].val])
      appended == [i \in 1..(Len(OutputRecord_fields) - 19) |->
                     IF OutputRecord_fields[i + 19] = "InitialMSIndicator" THEN <<>>
                     ELSE GoodSlice(OutputRecord_fields[i + 19])]
  IN InputRecord_str(r) \o concat(appended)

\* the line with the slot of class cls overwritten by t
Overwrite(output, cls, t) ==
  [i \in 1..Len(output) |->
     IF i > position(cls) /\ i <= position(cls) + Len(t) THEN t[i - position(cls)]
     ELSE output[i]]

Lines ==
  {GoodLine,
   Overwrite(GoodLine, "LOS", <<"0", "0", "0", "X", "8">>),
   Overwrite(GoodLine, "Sex", <<"7">>),
   Overwrite(GoodLine, "AdmitDiagnosis", ljust(J189, 7)),
   Overwrite(GoodLine, "CostWeight", <<"0", "1", ".", "2", ".", "4", "5">>),
   Overwrite(Overwrite(GoodLine, "LOS", <<" ", " ", " ", " ", " ">>),
             "HospitalAcquiredConditionStatus", <<"9">>),
   Overwrite(GoodLine, "FinalDRG", <<"1", " ", "3">>),
   SubSeq(GoodLine, 1, RecordWidth)}

New(cls, arg) ==
  /\ CodecIdle
  /\ field' = [cls |-> cls, arg |-> arg, res |-> Field_new(cls, arg)]
  /\ text' = NoText
  /\ parsed' = NoParse
  /\ line' = <<>>
  /\ outrec' = NoCall
  /\ UNCHANGED <<batch, initial, added, out, container, io_vars>>

\* str(field) of the field constructed
Encode ==
  /\ field.res.ok
  /\ text = NoText
  /\ text' = [cls |-> field.cls, res |-> Field_str(field.res.val)]
  /\ UNCHANGED <<batch, initial, added, out, field, parsed, line, outrec, container, io_vars>>

\* cls.parse_field_string of the encoding of the field constructed
Decode ==
  /\ text.res.ok
  /\ field.res.ok
  /\ parsed = NoParse
  /\ parsed' = [cls |-> text.cls, input |-> text.res.val,
                res |-> parse_field_string(text.cls, text.res.val)]
  /\ UNCHANGED <<batch, initial, added, out, field, text, line, outrec, container, io_vars>>

\* cls.parse_field_string of a slice of grouper output
ParseSlice(cls, t) ==
  /\ CodecIdle
  /\ field' = NoField
  /\ text' = NoText
  /\ parsed' = [cls |-> cls, input |-> t, res |-> parse_field_string(cls, t)]
  /\ line' = <<>>
  /\ outrec' = NoCall
  /\ UNCHANGED <<batch, initial, added, out, container, io_vars>>

ParseSubstring(substr, n_fields, field_len, q) ==
  /\ CodecIdle
  /\ field' = NoField
  /\ text' = NoText
  /\ parsed' =
       [cls |-> "parse_field_substring",
        input |-> [substr |-> substr, n_fields |-> n_fields, field_len |-> field_len,
                   break_values |-> q.break_values, cast |-> q.cast,
                   members |-> q.members],
        res |-> parse_field_substring(substr, n_fields, field_len, q.break_values,
                                      q.cast, q.members)]
  /\ line' = <<>>
  /\ outrec' = NoCall
  /\ UNCHANGED <<batch, initial, added, out, container, io_vars>>

\* OutputRecord.from_line(output)
FromLine(output) ==
  /\ CodecIdle
  /\ field' = NoField
  /\ text' = NoText
  /\ parsed' = NoParse
  /\ line' = output
  /\ outrec' = OutputRecord_from_line(line')
  /\ UNCHANGED <<batch, initial, added, out, container, io_vars>>

\* the objects the model constructs on their own, and their arguments: the value
\* containers and the PatientName of the older module field
ContainerClasses ==
  {"DiagnosisCode", "ProcedureCode", "Diagnosis", "Date", "field.PatientName"}

\* the strings a DiagnosisCode or a ProcedureCode is constructed from
RawCodes ==
  Codes \cup
  {J189, <<".">>, <<".", ".">>, <<"J", ".", "1", ".", "8", "9">>,
   <<".", "E", "4", "3", ".">>, <<"J", "1", "8", "-", "9">>, <<"J", "1", "8", " ">>,
   <<" ">>, CodeOfLen(7) \o <<".">>, CodeOfLen(4) \o <<".">> \o CodeOfLen(4)}

ContainerArgs(cls) ==
  CASE cls \in {"DiagnosisCode", "ProcedureCode"} -> RawCodes
    [] cls = "Diagnosis" ->
         {[diagnosis_code |-> c, poa |-> q] :
            c \in {<<>>} \cup {<<DiagnosisCode_init(x).val>> : x \in Codes},
            q \in {<<>>} \cup {<<v>> : v \in PresentOnAdmissionValue}}
    [] cls = "Date" -> {<<>>, <<8, 1, 2022>>, <<12, 31, 1980>>, <<1, 9, 2024>>}
    [] cls = "field.PatientName" -> FieldArgs("PatientName")

\* cls(args): the constructor of each class
Container_new(cls, args) ==
  CASE cls = "DiagnosisCode" -> DiagnosisCode_init(args)
    [] cls = "ProcedureCode" -> ProcedureCode_init(args)
    [] cls = "Diagnosis" -> Return(Diagnosis_init(args.diagnosis_code, args.poa))
    [] cls = "Date" -> Return(Date_init(args))
    [] cls = "field.PatientName" -> field_PatientName_init(args)

\* str(self) of each class
Container_str(cls, self) ==
  CASE cls = "DiagnosisCode" -> DiagnosisCode_str(self)
    [] cls = "ProcedureCode" -> ProcedureCode_str(self)
    [] cls = "Diagnosis" -> Diagnosis_str(self)
    [] cls = "Date" -> Date_str(self)
    [] cls = "field.PatientName" -> field_PatientName_str(self)

\* an object of one of these classes is constructed from its arguments
NewContainer(cls, args) ==
  /\ CodecIdle
  /\ container' = [cls |-> cls, args |-> args, res |-> Container_new(cls, args),
                   text |-> NoCall]
  /\ UNCHANGED <<batch, initial, added, out, field, text, parsed, line, outrec, io_vars>>

\* str() of the object constructed
StrContainer ==
  /\ container.res.ok
  /\ container.text = NoCall
  /\ container' =
       [container EXCEPT !.text = Return(Container_str(container.cls, container.res.val))]
  /\ UNCHANGED <<batch, initial, added, out, field, text, parsed, line, outrec, io_vars>>

Init ==
  /\ batch = <<>>
  /\ initial = <<>>
  /\ added = <<>>
  /\ out = NoOut
  /\ CodecIdle

Next ==
  \/ \E cls \in FieldClasses : \E arg \in FieldArgs(cls) : New(cls, arg)
  \/ Encode
  \/ Decode
  \/ \E cls \in SliceClasses : \E t \in SampleSlices(cls) : ParseSlice(cls, t)
  \/ \E slots \in SeqsUpTo(SlotValues, MaxFields) : \E n_fields \in 1..MaxFields :
       \E k \in 1..Len(SubstringParams) :
         ParseSubstring(concat(slots), n_fields, 2, SubstringParams[k])
  \/ \E output \in Lines : FromLine(output)
  \/ \E cls \in ContainerClasses : \E args \in ContainerArgs(cls) :
       NewContainer(cls, args)
  \/ StrContainer

Spec == Init /\ [][Next]_vars

----------------------------------------------------------------------------
(* Files, configuration and the grouping run.  fs maps a path to <<>> (no  *)
(* such file) or to <<data>>, data being the characters the file holds;   *)
(* cwd is the working directory of the Python process; proc is the        *)
(* external grouper process.                                              *)

\* default.DEFAULTS, the two settings GrouperParameter reads
DEFAULTS == [delete_input_file |-> TRUE, delete_output_file |-> TRUE]

\* config.CONFIG: the [tool.drg-grouper] table, each key absent (<<>>) or
\* set (<<value>>), completed with CONFIG.get(key, DEFAULTS[key])
CONFIG(toml) ==
  [key \in DOMAIN DEFAULTS |->
     IF toml[key] # <<>> THEN toml[key][1] ELSE DEFAULTS[key]]

DELETE_INPUT_FILE_ON_COMPLETION(conf) == conf["delete_input_file"]

DELETE_OUTPUT_FILE_ON_COMPLETION(conf) == conf["delete_input_file"]

\* GrouperParameter.__init__; an argument not passed is <<>>
GrouperParameter_init(conf, delete_input, delete_output) ==
  [delete_input_file |->
     IF delete_input # <<>> THEN delete_input[1]
     ELSE DELETE_INPUT_FILE_ON_COMPLETION(conf),
   delete_output_file |->
     IF delete_output # <<>> THEN delete_output[1]
     ELSE DELETE_OUTPUT_FILE_ON_COMPLETION(conf)]

\* MSDRGGrouperSoftwareParameter.__init__ with the default paths, which are
\* absolute: Path.cwd() / "input.txt" and Path.cwd() / "output.txt"
MSDRGGrouperSoftwareParameter_init(conf, b, delete_input, delete_output) ==
  LET base == GrouperParameter_init(conf, delete_input, delete_output)
  IN [delete_input_file |-> base.delete_input_file,
      delete_output_file |-> base.delete_output_file,
      batch |-> b,
      batchfile_path |-> "input.txt",
      output_destination |-> "output.txt"]

\* Path.unlink()
unlink(files, path) ==
  IF files[path] = <<>> THEN Raise("FileNotFoundError")
  ELSE Return([files EXCEPT ![path] = <<>>])

\* BatchFileHandler.__init__: the file object of the class given, the
\* temporary one when none is
BatchFileHandler_init(filepath, batch_file_object) ==
  [cls |-> IF batch_file_object = <<>> THEN "TemporaryBatchFile"
           ELSE batch_file_object[1],
   filepath |-> filepath]

\* BatchFileObject.write: open(self.filepath, "w"); f.write(str(batch))
BatchFileObject_write(self, files, b) ==
  [files EXCEPT ![self.filepath] = <<Batch_str(b)>>]

BatchFile_cleanup(self, files) == Return(files)

\* a temporary file object whose cleanup leaves the file
TemporaryBatchFile_cleanup_keeping(self, files) == Return(files)

TemporaryBatchFile_cleanup(self, files) == unlink(files, self.filepath)

\* BatchFileHandler.cleanup: self.batch_file.cleanup()
BatchFileHandler_cleanup(self, files) ==
  IF self.cls = "TemporaryBatchFile" THEN TemporaryBatchFile_cleanup(self, files)
  ELSE BatchFile_cleanup(self, files)

\* Batch.to_file: open(filepath, "w"); f.write(str(self))
Batch_to_file(self, files, filepath) ==
  [files EXCEPT ![filepath] = <<Batch_str(self)>>]

\* f.readlines(): the lines of the data, each with its line end
readlines(data) ==
  LET n == Len(data)
      ends == {i \in 1..n : data[i] = "\n"} \cup (IF n > 0 THEN {n} ELSE {})
      before(e) == {j \in ends : j < e}
      start(e) == IF before(e) = {} THEN 1
                  ELSE 1 + (CHOOSE j \in before(e) : \A k \in before(e) : k <= j)
      last(i) == CHOOSE e \in ends : Cardinality(before(e)) = i - 1
  IN [i \in 1..Cardinality(ends) |-> SubSeq(data, start(last(i)), last(i))]

\* load_output_from_file: OutputRecord.from_line of every line, the first
\* line that raises ending the call
load_output_from_file(files, filepath) ==
  IF files[filepath] = <<>> THEN Raise("FileNotFoundError")
  ELSE LET collect(records) ==
             LET raising == {i \in 1..Len(records) : ~records[i].ok}
             IN IF raising = {}
                THEN Return([i \in 1..Len(records) |-> records[i].val])
                ELSE records[CHOOSE i \in raising : \A j \in raising : i <= j]
           lines == readlines(files[filepath][1])
       IN collect([i \in 1..Len(lines) |-> OutputRecord_from_line(lines[i])])

\* a teardown that deletes the output file whatever the parameter says
teardown_always_output(params, files) ==
  LET input == IF params.delete_input_file
               THEN unlink(files, params.batchfile_path)
               ELSE Return(files)
  IN IF ~input.ok THEN [input EXCEPT !.val = files]
     ELSE LET output == unlink(input.val, params.output_destination)
          IN IF output.ok THEN output ELSE [output EXCEPT !.val = input.val]

\* MSDRGGrouperSoftwareGrouper._teardown; val is the file system it leaves
teardown(params, files) ==
  LET input == IF params.delete_input_file
               THEN unlink(files, params.batchfile_path)
               ELSE Return(files)
  IN IF ~input.ok THEN [input EXCEPT !.val = files]
     ELSE IF params.delete_output_file
          THEN LET output == unlink(input.val, params.output_destination)
               IN IF output.ok THEN output
                  ELSE [output EXCEPT !.val = input.val]
          ELSE input

\* working_directory, entry: prev_cwd = Path.cwd(); os.chdir(path)
working_directory_enter(current, path, exists) ==
  IF exists THEN Return(path) ELSE Raise("FileNotFoundError")

\* an exit that restores the directory only when the block completes
working_directory_exit_unprotected(current, prev_cwd, raised) ==
  IF raised THEN current ELSE prev_cwd

\* working_directory, exit: finally: os.chdir(prev_cwd)
working_directory_exit(current, prev_cwd, raised) == prev_cwd

\* CONFIG["grouper_path"], the directory the grouper is run in
grouper_directory == "C:/Program Files/MSG MCE Software I10"

\* what msgmce.bat writes to the output file for a batch, in the pieces it
\* is written in: every record's line in two pieces, the second ending the line
GrouperOutput(b) ==
  [k \in 1..(2 * Len(b)) |->
     IF k % 2 = 1 THEN SubSeq(GoodLine, 1, RecordWidth)
     ELSE SubSeq(GoodLine, RecordWidth + 1, Len(GoodLine)) \o <<"\n">>]

\* the settings of pyproject.toml: each of the two keys absent or set
Tomls ==
  [delete_input_file : {<<>>, <<TRUE>>, <<FALSE>>},
   delete_output_file : {<<>>, <<TRUE>>, <<FALSE>>}]

\* the two MSDRGGrouperSoftwareInterface classes of the repository
Interfaces == {"src.adapter", "cms_drg_grouper_interface.interface"}

\* an optional bool argument: not passed, True, False
OptionalBool == {<<>>, <<TRUE>>, <<FALSE>>}

\* a batch of n example records
ExampleBatch(n) == Batch_init([i \in 1..n |-> InputRecord_init([cls \in DOMAIN ExampleArgs |-> ExampleArgs[cls].val])])

InitGrouper ==
  /\ initial \in {ExampleBatch(n) : n \in 0..MaxBatch}
  /\ batch = initial
  /\ added = <<>>
  /\ out = NoOut
  /\ field = NoField
  /\ text = NoText
  /\ parsed = NoParse
  /\ line = <<>>
  /\ outrec = NoCall
  /\ container = NoContainer
  /\ config \in [toml : Tomls, interface : Interfaces]
  /\ fs = [path \in {"input.txt", "output.txt"} |-> <<>>]
  /\ cwd = "C:/Users/grouper"
  /\ handler = [pc |-> "none"]
  /\ run = [pc |-> "none"]
  /\ proc = [status |-> "none", opened |-> FALSE, written |-> 0]

\* BatchFileHandler(filepath=Path.cwd() / "input.txt"[, batch_file_object])
NewHandler(batch_file_object) ==
  /\ handler.pc = "none"
  /\ run.pc = "none"
  /\ handler' = [pc |-> "new",
                 passed |-> batch_file_object,
                 batch_file |-> BatchFileHandler_init("input.txt", batch_file_object)]
  /\ UNCHANGED <<batch, initial, added, out, field, text, parsed, line, outrec, container, config, fs, cwd, run, proc>>

\* batch_handler.write(batch)
HandlerWrite ==
  /\ handler.pc \in {"new", "written", "cleaned"}
  /\ fs' = BatchFileObject_write(handler.batch_file, fs, batch)
  /\ handler' = [handler EXCEPT !.pc = "written"]
  /\ UNCHANGED <<batch, initial, added, out, field, text, parsed, line, outrec, container, config, cwd, run, proc>>

\* batch_handler.cleanup(); a call made before any write leaves pc as it is
\* unless it raises
HandlerCleanup ==
  /\ handler.pc \in {"new", "written"}
  /\ LET done(res) ==
           /\ fs' = IF res.ok THEN res.val ELSE fs
           /\ handler' = [handler EXCEPT !.pc = IF ~res.ok THEN "raised"
                                                ELSE IF @ = "written" THEN "cleaned"
                                                ELSE @]
     IN done(BatchFileHandler_cleanup(handler.batch_file, fs))
  /\ UNCHANGED <<batch, initial, added, out, field, text, parsed, line, outrec, container, config, cwd, run, proc>>

\* MSDRGGrouperSoftwareParameter(batch=batch[, delete_input][, delete_output]),
\* the argument of MSDRGGrouperSoftwareGrouper.group
NewParameter(delete_input, delete_output) ==
  /\ handler.pc = "none"
  /\ run.pc = "none"
  /\ run' = [pc |-> "constructed",
             params |-> MSDRGGrouperSoftwareParameter_init(CONFIG(config.toml), batch, delete_input, delete_output),
             passed |-> [delete_input |-> delete_input, delete_output |-> delete_output],
             steps |-> <<>>,
             entry_cwd |-> cwd,
             block |-> "not entered",
             prev_cwd |-> "",
             err |-> "",
             at_load |-> [status |-> "none", file |-> <<>>],
             output |-> NoCall]
  /\ UNCHANGED <<batch, initial, added, out, field, text, parsed, line, outrec, container, config, fs, cwd, handler, proc>>

\* group: self._standup(params)
Standup ==
  /\ run.pc = "constructed"
  /\ fs' = Batch_to_file(run.params.batch, fs, run.params.batchfile_path)
  /\ run' = [run EXCEPT !.pc = "stood_up", !.steps = Append(@, "write-input-file")]
  /\ UNCHANGED <<batch, initial, added, out, field, text, parsed, line, outrec, container, config, cwd, handler, proc>>

\* group: self._interface.group(params), up to the entry of the with block;
\* the grouper directory exists or does not
Enter(exists) ==
  /\ run.pc = "stood_up"
  /\ LET entered(res) ==
           /\ cwd' = IF res.ok THEN res.val ELSE cwd
           /\ run' = [run EXCEPT !.pc = IF res.ok THEN "in_block" ELSE "raised",
                                 !.err = res.err,
                                 !.prev_cwd = cwd,
                                 !.block = IF res.ok THEN "entered" ELSE @,
                                 !.steps = Append(@, "invoke-grouper")]
     IN entered(working_directory_enter(cwd, grouper_directory, exists))
  /\ UNCHANGED <<batch, initial, added, out, field, text, parsed, line, outrec, container, config, fs, handler, proc>>

\* the body of the with block starts the process: subprocess.Popen(command)
\* returns at once, subprocess.run(command) waits; msgmce.bat is found or the
\* call raises FileNotFoundError
Spawn(found) ==
  /\ run.pc = "in_block"
  /\ proc' = IF found THEN [proc EXCEPT !.status = "running"] ELSE proc
  /\ run' = [run EXCEPT !.pc = IF ~found THEN "block_end"
                               ELSE IF config.interface = "src.adapter" THEN "block_end"
                               ELSE "waiting",
                        !.err = IF found THEN "" ELSE "FileNotFoundError"]
  /\ UNCHANGED <<batch, initial, added, out, field, text, parsed, line, outrec, container, config, fs, cwd, handler>>

\* subprocess.run returns when the process has terminated, whatever its
\* return code
Wait ==
  /\ run.pc = "waiting"
  /\ proc.status \in {"exited", "failed"}
  /\ run' = [run EXCEPT !.pc = "block_end"]
  /\ UNCHANGED <<batch, initial, added, out, field, text, parsed, line, outrec, container, config, fs, cwd, handler, proc>>

\* the with block ends: the finally clause runs, then the exception of the
\* body, if any, leaves group
Exit ==
  /\ run.pc = "block_end"
  /\ cwd' = working_directory_exit(cwd, run.prev_cwd, run.err # "")
  /\ run' = [run EXCEPT !.pc = IF run.err # "" THEN "raised" ELSE "invoked",
                        !.block = IF run.err # "" THEN "raised" ELSE "completed"]
  /\ UNCHANGED <<batch, initial, added, out, field, text, parsed, line, outrec, container, config, fs, handler, proc>>

\* group: output = load_output_from_file(params.output_destination)
Load ==
  /\ run.pc = "invoked"
  /\ LET loaded(res) ==
           run' = [run EXCEPT !.pc = IF res.ok THEN "loaded" ELSE "raised",
                              !.err = res.err,
                              !.output = res,
                              !.at_load = [status |-> proc.status,
                                           file |-> fs[run.params.output_destination]],
                              !.steps = Append(@, "load-output")]
     IN loaded(load_output_from_file(fs, run.params.output_destination))
  /\ UNCHANGED <<batch, initial, added, out, field, text, parsed, line, outrec, container, config, fs, cwd, handler, proc>>

\* group: self._teardown(params); return output
Teardown ==
  /\ run.pc = "loaded"
  /\ LET torn(res) ==
           /\ fs' = res.val
           /\ run' = [run EXCEPT !.pc = IF res.ok THEN "done" ELSE "raised",
                                 !.err = res.err,
                                 !.steps = Append(@, "teardown")]
     IN torn(teardown(run.params, fs))
  /\ UNCHANGED <<batch, initial, added, out, field, text, parsed, line, outrec, container, config, cwd, handler, proc>>

\* the grouper process opens its output file
ProcessOpens ==
  /\ proc.status = "running"
  /\ ~proc.opened
  /\ proc' = [proc EXCEPT !.opened = TRUE]
  /\ fs' = [fs EXCEPT ![run.params.output_destination] = <<<<>>>>]
  /\ UNCHANGED <<batch, initial, added, out, field, text, parsed, line, outrec, container, config, cwd, handler, run>>

\* the grouper process writes the next piece of its output; a file unlinked
\* meanwhile does not come back
ProcessWrites ==
  /\ proc.status = "running"
  /\ proc.opened
  /\ proc.written < Len(GrouperOutput(run.params.batch))
  /\ proc' = [proc EXCEPT !.written = @ + 1]
  /\ fs' = [fs EXCEPT ![run.params.output_destination] =
              IF @ = <<>> THEN @
              ELSE <<@[1] \o GrouperOutput(run.params.batch)[proc.written + 1]>>]
  /\ UNCHANGED <<batch, initial, added, out, field, text, parsed, line, outrec, container, config, cwd, handler, run>>

\* the grouper process terminates: with all its output written, or early
ProcessTerminates(status) ==
  /\ proc.status = "running"
  /\ status = "exited" =>
       proc.opened /\ proc.written = Len(GrouperOutput(run.params.batch))
  /\ proc' = [proc EXCEPT !.status = status]
  /\ UNCHANGED <<batch, initial, added, out, field, text, parsed, line, outrec, container, config, fs, cwd, handler, run>>

NextGrouper ==
  \/ \E batch_file_object \in {<<>>, <<"BatchFile">>, <<"TemporaryBatchFile">>} :
       NewHandler(batch_file_object)
  \/ HandlerWrite
  \/ HandlerCleanup
  \/ \E delete_input \in OptionalBool, delete_output \in OptionalBool :
       NewParameter(delete_input, delete_output)
  \/ Standup
  \/ \E exists \in BOOLEAN : Enter(exists)
  \/ \E found \in BOOLEAN : Spawn(found)
  \/ Wait
  \/ Exit
  \/ Load
  \/ Teardown
  \/ ProcessOpens
  \/ ProcessWrites
  \/ \E status \in {"exited", "failed"} : ProcessTerminates(status)

SpecGrouper == InitGrouper /\ [][NextGrouper]_vars

----------------------------------------------------------------------------
(* Claims about the input record and the batch, checked under SpecBatch *)

RECURSIVE LengthsBefore(_, _)
\* the sum of the field_length of the first n fields
LengthsBefore(fields, n) ==
  IF n = 0 THEN 0
  ELSE LengthsBefore(fields, n - 1) + field_length(fields[n].cls)

\* C1: every validly constructed input record encodes to exactly 835
\* characters (stated of the records a batch has serialized).
C1_RecordLength ==
  out.called =>
    \A i \in 1..Len(out.records) :
      Len(InputRecord_str(out.records[i])) = RecordWidth

\* C2: a batch of n records of 835 characters each encodes to exactly 835 * n
\* characters, the records concatenated with no separator.
C2_BatchNoSeparator ==
  (/\ out.called
   /\ \A i \in 1..Len(out.records) :
        Len(InputRecord_str(out.records[i])) = RecordWidth)
  => /\ Len(out.text) = RecordWidth * Len(out.records)
     /\ out.text =
          concat([i \in 1..Len(out.records) |-> InputRecord_str(out.records[i])])

\* C3: the batch iterates the records it was constructed with followed by the
\* records added, in call order; its length is the initial count plus the
\* number of add_record calls; no step removes, replaces or reorders a record
\* already held.
C3_BatchOrder ==
  /\ [](/\ Batch_iter(batch) = initial \o added
        /\ Batch_len(batch) = Len(initial) + Len(added))
  /\ [][/\ Len(batch') >= Len(batch)
        /\ \A i \in 1..Len(batch) : batch'[i] = batch[i]]_vars

C3_Witness ==
  /\ Len(initial) = 1
  /\ Len(added) = 1
  /\ initial[1] # added[1]
  /\ batch = <<initial[1], added[1]>>

\* C5: in every input record the fields are serialized in the order of the
\* position table: each field's position is the sum of the field_length of
\* the fields serialized before it, from PatientName at 0 to Filler at 810,
\* and the 21 lengths sum to 835.
C5_PositionTable ==
  \A r \in 1..Len(batch) :
    LET fields == InputRecord_iter(batch[r])
    IN /\ Len(fields) = 21
       /\ \A i \in 1..Len(fields) :
            position(fields[i].cls) = LengthsBefore(fields, i - 1)
       /\ fields[1].cls = "PatientName"
       /\ fields[21].cls = "Filler"
       /\ position("Filler") = 810
       /\ LengthsBefore(fields, Len(fields)) = RecordWidth

C5_Witness ==
  /\ Len(batch) = 2
  /\ out.called
  /\ out.records = batch
  /\ Len(InputRecord_str(batch[1])) = RecordWidth
  /\ Slice(out.text, position("LOS"), position("LOS") + field_length("LOS"))
       = Field_str(batch[1]["LOS"]).val
  /\ Slice(out.text, position("Filler"), RecordWidth) = Repeat(" ", 25)

----------------------------------------------------------------------------
(* Claims about the field codecs and the output record, checked under Spec *)

\* C4: for every field class and every validly constructed instance,
\* str(field) succeeds and has exactly the class's field_length characters.
C4_FieldWidth ==
  text.cls # "" =>
    /\ text.res.ok
    /\ Len(text.res.val) = field_length(text.cls)

\* C6 as stated: a repeating-group decode that meets a break value in any
\* slot, the first included, returns exactly the sub-values decoded before
\* that slot.
C6_SentinelNeverReturned ==
  parsed.cls = "parse_field_substring" =>
    LET in == parsed.input
        slot(i) == Slice(in.substr, (i - 1) * in.field_len, i * in.field_len)
        breaks == {i \in 1..in.n_fields : slot(i) \in in.break_values}
    IN \A b \in breaks :
         ((\A j \in breaks : b <= j) /\ parsed.res.ok) =>
           parsed.res.val =
             [i \in 1..(b - 1) |-> convert(in.cast, in.members, slot(i)).val]

\* C6 amended: a repeating-group decode that meets its first break value in
\* a slot after the first returns exactly the sub-values decoded before that
\* slot, the sentinel excluded; when the first slot holds the break value the
\* result is the converted sentinel alone (or the error of converting it).
C6_SentinelExcludedAfterFirst ==
  parsed.cls = "parse_field_substring" =>
    LET in == parsed.input
        slot(i) == Slice(in.substr, (i - 1) * in.field_len, i * in.field_len)
        breaks == {i \in 1..in.n_fields : slot(i) \in in.break_values}
        alone(v) == IF v.ok THEN Return(<<v.val>>) ELSE v
    IN \A b \in breaks :
         (\A j \in breaks : b <= j) =>
           IF b = 1
           THEN parsed.res = alone(convert(in.cast, in.members, slot(1)))
           ELSE parsed.res.ok =>
                  parsed.res.val =
                    [i \in 1..(b - 1) |-> convert(in.cast, in.members, slot(i)).val]

C6_Witness ==
  /\ parsed.cls = "parse_field_substring"
  /\ parsed.input.substr = <<"0", "1", "0", "2", "0", "0">>
  /\ parsed.input.n_fields = 3
  /\ parsed.input.cast = "int"
  /\ parsed.res = Return(<<1, 2>>)

\* C7: decoding a 24-slot secondary-diagnosis group succeeds and returns as
\* many diagnoses as there are slots before the first all-blank slot (three
\* diagnoses followed by a blank slot give three elements).
C7_StopsAtBlankSlot ==
  (parsed.cls = "SecondaryDiagnoses"
   /\ Len(parsed.input) = SecondaryDiagnoses_occurrence * Diagnosis_field_length) =>
    LET slot(i) == Slice(parsed.input, (i - 1) * Diagnosis_field_length,
                         i * Diagnosis_field_length)
        blanks == {i \in 1..SecondaryDiagnoses_occurrence :
                     slot(i) = Repeat(" ", Diagnosis_field_length)}
    IN \A b \in blanks :
         (\A j \in blanks : b <= j) =>
           /\ parsed.res.ok
           /\ Len(parsed.res.val) = b - 1

\* C8: for every field class with a default value, the default constructed
\* field encodes, its encoding decodes without error, and the decoded value
\* equals the default value.
C8_DefaultRoundTrip ==
  (field.cls \in DefaultClasses /\ field.arg = <<>> /\ field.res.ok) =>
    /\ text.cls # "" => text.res.ok
    /\ parsed.cls # "" =>
         /\ parsed.res.ok
         /\ parsed.res.val = field.res.val.value

\* C9 as stated: from_line decodes every field of the line independently; a
\* field that fails to decode does not keep the record, nor the fields that
\* do decode, from being returned.
C9_FieldsIndependent ==
  line # <<>> =>
    /\ outrec.ok
    /\ \A k \in 1..Len(OutputRecord_fields) :
         LET v == new_from_output_string(OutputRecord_fields[k], line)
         IN v.ok => outrec.val[name(OutputRecord_fields[k])] = v.val

\* C9 amended: from_line is fail-fast.  When every field of the line decodes
\* the record holds the line and each field's decoded value; otherwise the
\* call raises the error of the first field, in the order of
\* OutputRecord.fields, that fails to decode, and no record is returned.
C9_FailFast ==
  line # <<>> =>
    LET results == [k \in 1..Len(OutputRecord_fields) |->
                      new_from_output_string(OutputRecord_fields[k], line)]
        failing == {k \in DOMAIN results : ~results[k].ok}
    IN IF failing = {}
       THEN /\ outrec.ok
            /\ outrec.val["record"] = line
            /\ \A k \in DOMAIN results :
                 outrec.val[name(OutputRecord_fields[k])] = results[k].val
       ELSE outrec = results[CHOOSE k \in failing : \A m \in failing : k <= m]

C9_Witness ==
  /\ line # <<>>
  /\ ~outrec.ok
  /\ outrec.err = "ValueError"
  /\ new_from_output_string("PatientName", line).ok
  /\ ~new_from_output_string("LOS", line).ok
  /\ new_from_output_string("CostWeight", line).ok

\* C10: LOS(v) is constructed exactly when 0 <= v <= 45291 and Age(v) exactly
\* when 0 <= v <= 124, every other integer raising an error (the value is
\* never clamped); an accepted value encodes as its decimal digits
\* zero-filled on the left to exactly 5 (LOS) or 3 (Age) characters, so
\* LOS(45291) encodes as "45291" and LOS(45292) fails.
C10_RejectNotClamp ==
  /\ field.cls = "LOS" =>
       /\ field.res.ok <=> (0 <= field.arg /\ field.arg <= 45291)
       /\ field.res.ok => field.res.val.value = field.arg
       /\ field.arg = 45292 => ~field.res.ok
  /\ field.cls = "Age" =>
       /\ field.res.ok <=> (0 <= field.arg /\ field.arg <= 124)
       /\ field.res.ok => field.res.val.value = field.arg
  /\ text.cls \in {"LOS", "Age"} =>
       /\ text.res.ok
       /\ Len(text.res.val) = (IF text.cls = "LOS" THEN 5 ELSE 3)
       /\ \A i \in 1..Len(text.res.val) : text.res.val[i] \in DigitChars
       /\ digits_value(text.res.val) = field.arg
  /\ (text.cls = "LOS" /\ field.arg = 45291) =>
       text.res.val = <<"4", "5", "2", "9", "1">>
  /\ (text.cls = "Age" /\ field.arg = 0) => text.res.val = <<"0", "0", "0">>

C10_Witness ==
  /\ field.cls = "LOS"
  /\ field.arg = 45291
  /\ text.cls = "LOS"
  /\ text.res = Return(<<"4", "5", "2", "9", "1">>)

----------------------------------------------------------------------------
(* Claims about the value containers, checked under Spec *)

\* the characters of t other than the decimal point, in order
WithoutDots(t) == SelectSeq(t, LAMBDA c : c # ".")

CodeOf(cls, self) == IF cls = "DiagnosisCode" THEN self.code ELSE self.procedure_code

\* C11: a DiagnosisCode or ProcedureCode that is constructed stores its input
\* with every "." removed; "J18.9" is constructed and gives the stored code and
\* the encoding of "J189"; removing the decimals of a stored code changes nothing
C11_DecimalRemoved ==
  container.cls \in {"DiagnosisCode", "ProcedureCode"} =>
    /\ container.res.ok =>
         /\ CodeOf(container.cls, container.res.val) = WithoutDots(container.args)
         /\ remove_decimal(CodeOf(container.cls, container.res.val))
              = CodeOf(container.cls, container.res.val)
    /\ container.args = J18_9 =>
         /\ container.res = Container_new(container.cls, J189)
         /\ container.res.ok
         /\ CodeOf(container.cls, container.res.val) = J189
         /\ container.text.ok =>
              container.text.val = <<"J", "1", "8", "9", " ", " ", " ">>

C11_Witness ==
  /\ container.cls = "DiagnosisCode"
  /\ container.args = J18_9
  /\ container.res.ok
  /\ container.res.val.code = J189
  /\ container.text.ok
  /\ container.text.val = <<"J", "1", "8", "9", " ", " ", " ">>

\* every character of t is a letter or a digit (true of the empty string)
AllAlnum(t) == \A i \in 1..Len(t) : isalnum_char(t[i])

\* C12 as stated: DiagnosisCode(code) strips the "." first and fails exactly when
\* what remains is non-empty and not alphanumeric; an empty remainder (empty
\* input, or input made only of ".") is accepted as the unset code
C12_EmptyRemainderAccepted ==
  container.cls = "DiagnosisCode" =>
    /\ ~container.res.ok <=>
         (WithoutDots(container.args) # <<>> /\ ~AllAlnum(WithoutDots(container.args)))
    /\ WithoutDots(container.args) = <<>> =>
         (container.res.ok /\ container.res.val.code = <<>>)

\* C12: DiagnosisCode(code) accepts the empty input as the unset code before it
\* strips anything; any other input is stripped of "." and fails with ValueError
\* exactly when what remains is not a non-empty alphanumeric string, so an input
\* made only of "." is rejected
C12_OnlyEmptyInputUnset ==
  container.cls = "DiagnosisCode" =>
    /\ container.res.ok <=>
         \/ container.args = <<>>
         \/ WithoutDots(container.args) # <<>> /\ AllAlnum(WithoutDots(container.args))
    /\ container.res.ok => container.res.val.code = WithoutDots(container.args)
    /\ ~container.res.ok => container.res.err = "ValueError"

C12_Witness ==
  /\ container.cls = "DiagnosisCode"
  /\ container.args = <<".", ".">>
  /\ ~container.res.ok
  /\ container.res.err = "ValueError"

\* C13: every DiagnosisCode or ProcedureCode that is constructed holds at most 7
\* characters and encodes as exactly 7 bytes: the code left-justified and
\* blank-filled, all blanks for the empty code
C13_SevenBytes ==
  (container.cls \in {"DiagnosisCode", "ProcedureCode"} /\ container.res.ok) =>
    /\ Len(CodeOf(container.cls, container.res.val)) <= 7
    /\ container.text.ok =>
         /\ Len(container.text.val) = 7
         /\ \A i \in 1..7 :
              container.text.val[i] =
                IF i <= Len(CodeOf(container.cls, container.res.val))
                THEN CodeOf(container.cls, container.res.val)[i] ELSE " "

DateClasses == {"AdmitDate", "DischargeDate", "BirthDate"}

\* t is mm/dd/yyyy for the date d = <<month, day, year>>
IsMDY(t, d) ==
  /\ Len(t) = 10
  /\ t[3] = "/" /\ t[6] = "/"
  /\ \A i \in {1, 2, 4, 5, 7, 8, 9, 10} : t[i] \in DigitChars
  /\ 10 * DigitValue(t[1]) + DigitValue(t[2]) = d[1]
  /\ 10 * DigitValue(t[4]) + DigitValue(t[5]) = d[2]
  /\ 1000 * DigitValue(t[7]) + 100 * DigitValue(t[8]) + 10 * DigitValue(t[9])
       + DigitValue(t[10]) = d[3]

C15_EightBytes ==
  (container.cls = "Diagnosis" /\ container.res.ok) =>
    /\ container.args = [diagnosis_code |-> <<>>, poa |-> <<>>] =>
         /\ container.res.val.code.code = <<>>
         /\ container.res.val.poa = PresentOnAdmissionValue_NONE_TYPE
    /\ container.text.ok =>
         /\ Len(container.text.val) = 8
         /\ SubSeq(container.text.val, 1, 7) = ljust(container.res.val.code.code, 7)
         /\ container.text.val[8] = container.res.val.poa

----------------------------------------------------------------------------
(* Claims about the input fields, checked under Spec *)

C17_AlnumOrSpace ==
  field.cls \in {"PatientName", "MedicalRecordNumber", "AccountNumber"} =>
    /\ field.res.ok <=>
         \A i \in 1..Len(field.arg) : isalnum_char(field.arg[i]) \/ field.arg[i] = " "
    /\ field.res.ok => field.res.val.value = field.arg
    /\ ~field.res.ok => field.res.err = "ValueError"

\* C18: MedicalRecordNumber and AccountNumber constructed with no value (the
\* default "") are constructed without error and encode as all blanks, 13 and 17
\* spaces
C18_DefaultBlank ==
  (field.cls \in {"MedicalRecordNumber", "AccountNumber"} /\ field.arg = <<>>) =>
    /\ field.res.ok
    /\ text.cls = field.cls =>
         /\ text.res.ok
         /\ text.res.val = [j \in 1..(IF field.cls = "MedicalRecordNumber" THEN 13 ELSE 17)
                              |-> " "]

\* C19: for every name made of letters, digits and spaces, the empty name and
\* names longer than 31 characters included, PatientName(name) is constructed
\* without error and str() of it is exactly 31 characters: the first 31
\* characters of the name, padded on the right with spaces; this for the
\* PatientName of module batch_field and for the one of module field
C19_PatientName31 ==
  LET padded(v) == [i \in 1..31 |-> IF i <= Len(v) THEN v[i] ELSE " "]
      named(v) == \A i \in 1..Len(v) : isalnum_char(v[i]) \/ v[i] = " "
  IN /\ (field.cls = "PatientName" /\ named(field.arg)) =>
          /\ field.res.ok
          /\ text.cls = "PatientName" =>
               (text.res.ok /\ text.res.val = padded(field.arg))
     /\ (container.cls = "field.PatientName" /\ named(container.args)) =>
          /\ container.res.ok
          /\ container.text.ok => container.text.val = padded(container.args)

----------------------------------------------------------------------------
(* Claims about decoding the grouper's output, checked under Spec *)

\* C20 as stated: decoding the 7-byte cost-weight slot applies an implicit
\* decimal point, 2 integer and 4 fractional digits: for a digits-only slot
\* such as "0012345" the decoded value times 10000 is the integer the 7 digits
\* spell
C20_ImplicitDecimalPoint ==
  (parsed.cls = "CostWeight" /\ \A i \in 1..7 : parsed.input[i] \in DigitChars) =>
    /\ parsed.res.ok
    /\ parsed.res.val.exponent >= 0 - 4
    /\ parsed.res.val.digits * 10 ^ (4 + parsed.res.val.exponent)
         = digits_value(parsed.input)

\* C20: decoding the cost-weight slot is float(slot), with no scaling: a slot of
\* 2 digits, a decimal point and 4 digits ("01.2345") decodes to the number it
\* spells (1.2345), a digits-only slot ("0012345") to the whole number it
\* spells (12345.0), and a blank slot raises ValueError
C20_ExplicitDecimalPoint ==
  parsed.cls = "CostWeight" =>
    LET t == parsed.input
        dotted == /\ t[3] = "."
                  /\ \A i \in {1, 2, 4, 5, 6, 7} : t[i] \in DigitChars
        whole == \A i \in 1..7 : t[i] \in DigitChars
        times10000(v) == v.digits * 10 ^ (4 + v.exponent)
    IN /\ dotted =>
            /\ parsed.res.ok
            /\ times10000(parsed.res.val)
                 = digits_value(<<t[1], t[2], t[4], t[5], t[6], t[7]>>)
       /\ whole =>
            /\ parsed.res.ok
            /\ times10000(parsed.res.val) = 10000 * digits_value(t)
       /\ (\A i \in 1..7 : t[i] = " ") =>
            (~parsed.res.ok /\ parsed.res.err = "ValueError")

C20_Witness ==
  /\ parsed.cls = "CostWeight"
  /\ parsed.input = <<"0", "0", "1", "2", "3", "4", "5">>
  /\ parsed.res.ok
  /\ parsed.res.val = [digits |-> 12345, exponent |-> 0]

\* C22: decode is the inverse of encode for the scalar code fields: for every
\* valid code c (empty, shorter than 7 characters, or exactly 7),
\* AdmitDiagnosis.parse_field_string(str(AdmitDiagnosis(c))) and
\* PrincipalProcedure.parse_field_string(str(PrincipalProcedure(c))) succeed and
\* return a code whose stored value is that of c
C22_CodeRoundTrip ==
  LET stored(cls, v) == IF cls = "AdmitDiagnosis" THEN v.code ELSE v.procedure_code
  IN (/\ parsed.cls \in {"AdmitDiagnosis", "PrincipalProcedure"}
      /\ field.cls = parsed.cls
      /\ Len(stored(field.cls, field.res.val.value)) <= 7) =>
       /\ parsed.res.ok
       /\ stored(parsed.cls, parsed.res.val) = stored(field.cls, field.res.val.value)

\* C23: in the layout a line is decoded with, the byte ranges
\* [position, position + field_length) of the fields of OutputRecord.fields are
\* pairwise disjoint, and the fields the grouper appends (from the 20th on)
\* tile bytes 835 up to 1903: each starts where the previous one ends
C23_OutputLayoutDisjoint ==
  line # <<>> =>
    LET f == OutputRecord_fields
        end(i) == position(f[i]) + field_length(f[i])
    IN /\ \A i, j \in 1..Len(f) :
            i < j => (end(i) <= position(f[j]) \/ end(j) <= position(f[i]))
       /\ position(f[20]) = 835
       /\ \A i \in 21..Len(f) : position(f[i]) = end(i - 1)
       /\ end(Len(f)) = 1903

\* C24: parse_field_substring, for n_fields >= 1 and slots that all convert,
\* returns between 1 and n_fields values: one (the converted break value) when
\* the first slot holds a break value, the values before the first break value
\* when a later slot holds one, n_fields values otherwise; so the nested decoder
\* of SecondaryDiagnosisReturnFlag returns exactly 24 inner lists, none empty
C24_NeverEmpty ==
  /\ (parsed.cls = "parse_field_substring" /\ parsed.res.ok) =>
       LET in == parsed.input
           slot(i) == Slice(in.substr, (i - 1) * in.field_len, i * in.field_len)
           breaks == {i \in 1..in.n_fields : slot(i) \in in.break_values}
           n == Len(parsed.res.val)
       IN /\ n >= 1 /\ n <= in.n_fields
          /\ breaks = {} => n = in.n_fields
          /\ 1 \in breaks => n = 1
          /\ (breaks # {} /\ 1 \notin breaks) =>
               (n + 1 \in breaks /\ \A b \in breaks : n < b)
  /\ (parsed.cls = "SecondaryDiagnosisReturnFlag" /\ parsed.res.ok) =>
       /\ Len(parsed.res.val) = 24
       /\ \A g \in 1..24 :
            Len(parsed.res.val[g]) >= 1 /\ Len(parsed.res.val[g]) <= 4

C24_Witness ==
  /\ parsed.cls = "SecondaryDiagnosisReturnFlag"
  /\ parsed.res.ok
  /\ parsed.res.val[1] = <<1, 2>>
  /\ parsed.res.val[2] = <<0>>
  /\ parsed.res.val[3] = <<1, 2, 3, 1>>

\* C25: SecondaryProcedures.parse_field_string and
\* ProcedureDates.parse_field_string return exactly the values of the slots
\* before the first all-blank slot, in slot order; a value after a blank slot is
\* not returned, so decoding the encoding of xs gives xs only when xs has no
\* empty element before a non-empty one
C25_StopsAtFirstBlank ==
  (parsed.cls \in {"SecondaryProcedures", "ProcedureDates"} /\ parsed.res.ok) =>
    LET cls == parsed.cls
        width == IF cls = "SecondaryProcedures" THEN 7 ELSE 10
        slots == IF cls = "SecondaryProcedures" THEN 24 ELSE 25
        slot(i) == SubSeq(parsed.input, (i - 1) * width + 1, i * width)
        blank == {i \in 1..slots : \A j \in 1..width : slot(i)[j] = " "}
        str(v) == IF cls = "SecondaryProcedures" THEN ProcedureCode_str(v)
                  ELSE Date_str(v)
        empty(v) == IF cls = "SecondaryProcedures" THEN v.procedure_code = <<>>
                    ELSE v.date = <<>>
        xs == field.arg[1]
    IN /\ \A i \in 1..slots : (\A b \in blank : i < b) <=> i <= Len(parsed.res.val)
       /\ \A i \in 1..Len(parsed.res.val) : str(parsed.res.val[i]) = slot(i)
       /\ (field.cls = cls /\ field.arg # <<>> /\ parsed.res.val = xs) =>
            \A i, j \in 1..Len(xs) : i < j => ~(empty(xs[i]) /\ ~empty(xs[j]))

C25_Witness ==
  /\ parsed.cls = "SecondaryProcedures"
  /\ field.cls = "SecondaryProcedures"
  /\ field.arg # <<>>
  /\ Len(field.arg[1]) = 3
  /\ field.arg[1][2].procedure_code = <<>>
  /\ field.arg[1][3].procedure_code = E43
  /\ parsed.res.ok
  /\ parsed.res.val = <<field.arg[1][1]>>

----------------------------------------------------------------------------
(* A further claim about the batch, checked under SpecBatch *)

\* C29: no valid input record's encoding holds a newline character, so the
\* newline-joined str(batch) of n >= 1 records holds exactly n - 1 newlines
C29_NoNewlineInRecord ==
  (out.called /\ Len(out.records) >= 1) =>
    /\ \A i \in 1..Len(out.records) :
         \A j \in 1..Len(InputRecord_str(out.records[i])) :
           InputRecord_str(out.records[i])[j] # "\n"
    /\ Cardinality({j \in 1..Len(out.text) : out.text[j] = "\n"})
         = Len(out.records) - 1

----------------------------------------------------------------------------
(* Claims about the files and the grouping run, checked under SpecGrouper *)

\* C21: for the batch file handler, the file does not exist before write;
\* after write(batch) it exists and holds str(batch); after a following
\* cleanup() it no longer exists when the handler uses the temporary file
\* object (the default), and still exists when it uses BatchFile.
C21_HandlerFile ==
  handler.pc # "none" =>
    LET file == fs[handler.batch_file.filepath]
    IN /\ handler.pc = "new" => file = <<>>
       /\ handler.pc = "written" => file = <<Batch_str(batch)>>
       /\ handler.pc = "cleaned" =>
            IF handler.batch_file.cls = "TemporaryBatchFile" THEN file = <<>>
            ELSE file = <<Batch_str(batch)>>

\* a handler built without a file object class has written and cleaned up
C21_Witness ==
  /\ handler.pc = "cleaned"
  /\ handler.passed = <<>>
  /\ Len(batch) > 0
  /\ fs[handler.batch_file.filepath] = <<>>

\* C28: a GrouperParameter built without explicit arguments takes
\* delete_input_file from the configured delete_input_file setting and
\* delete_output_file from the configured delete_output_file setting, each
\* independently of the other
C28_IndependentDefaults ==
  (/\ run.pc # "none"
   /\ run.passed.delete_input = <<>>
   /\ run.passed.delete_output = <<>>) =>
    /\ run.params.delete_input_file =
         (IF config.toml.delete_input_file = <<>> THEN DEFAULTS.delete_input_file
          ELSE config.toml.delete_input_file[1])
    /\ run.params.delete_output_file =
         (IF config.toml.delete_output_file = <<>> THEN DEFAULTS.delete_output_file
          ELSE config.toml.delete_output_file[1])

\* C30: working_directory(path) makes path the working directory for the
\* duration of the block and restores the directory that was current on entry
\* when the block ends, both when it completes and when it raises
C30_DirectoryRestored ==
  run.pc # "none" =>
    /\ run.block = "entered" => cwd = grouper_directory
    /\ run.block \in {"completed", "raised"} => cwd = run.entry_cwd
    /\ run.block = "not entered" => cwd = run.entry_cwd

\* the block has raised and the directory of entry, which is not the grouper's,
\* is current again
C30_Witness ==
  /\ run.pc = "raised"
  /\ run.block = "raised"
  /\ run.prev_cwd = run.entry_cwd
  /\ cwd = run.entry_cwd
  /\ cwd # grouper_directory

\* C26: in MSDRGGrouperSoftwareGrouper.group the output file is read only
\* after the grouper process has terminated (the interface's group call does
\* not return while the process it started is running), so that
\* load_output_from_file never reads a missing or partially written file
\* while the process runs, and reads the whole output of a process that
\* completed
C26_ReadAfterTermination ==
  (run.pc # "none" /\ \E i \in DOMAIN run.steps : run.steps[i] = "load-output") =>
    /\ run.at_load.status \in {"exited", "failed"}
    /\ run.at_load.status = "exited" =>
         run.at_load.file = <<concat(GrouperOutput(run.params.batch))>>

\* C27: MSDRGGrouperSoftwareGrouper.group runs its steps in the fixed order
\* write-input-file, invoke-grouper, load-output, teardown; teardown deletes
\* the input file iff delete_input_file and the output file iff
\* delete_output_file, never before the output records have been loaded; and
\* when invoking or loading raises, teardown is not run and neither file is
\* deleted
C27_StepsAndTeardown ==
  run.pc # "none" =>
    LET order == <<"write-input-file", "invoke-grouper", "load-output", "teardown">>
        torn == \E i \in DOMAIN run.steps : run.steps[i] = "teardown"
        input == fs[run.params.batchfile_path]
        output == fs[run.params.output_destination]
    IN /\ Len(run.steps) <= Len(order)
       /\ \A i \in DOMAIN run.steps : run.steps[i] = order[i]
       /\ run.pc = "done" =>
            /\ torn
            /\ (input = <<>>) <=> run.params.delete_input_file
            /\ (output = <<>>) <=> run.params.delete_output_file
       /\ torn => run.output.ok
       /\ (run.pc \notin {"constructed", "done"} /\ ~torn) =>
            /\ input = <<Batch_str(run.params.batch)>>
            /\ output = <<>> => ~proc.opened
       /\ run.pc = "raised" => ~torn

\* a run that loaded records and tore down, deleting the input file and
\* keeping the output file as its parameter says
C27_Witness ==
  /\ run.pc = "done"
  /\ run.steps = <<"write-input-file", "invoke-grouper", "load-output", "teardown">>
  /\ Len(run.output.val) > 0
  /\ run.params.delete_input_file
  /\ ~run.params.delete_output_file
  /\ fs[run.params.batchfile_path] = <<>>
  /\ fs[run.params.output_destination] # <<>>

====
